---- MODULE Spec2Model ----
(***************************************************************************)
(* Meraki provisioning tooling: the network manager's device claim and     *)
(* verification engine (meraki_network24JULY.py), the device relocation    *)
(* workflow (workinglocal/device_move.py), the vMX deployer (scrypt.py),   *)
(* the command-line entry points of these programs, the vMX deployment     *)
(* script (deploy_meraki_vmx.py) and the service handlers                  *)
(* (lambda_function.py, lambda_handler.py).                                *)
(* Each workflow is a single thread of control; a step of the model is one *)
(* remote call together with the local code that follows it up to the next *)
(* remote call.  The remote services answer nondeterministically.          *)
(***************************************************************************)
EXTENDS Integers, Sequences, FiniteSets, TLC

VARIABLES
    \* ---- network manager (add_devices_to_network / verify_devices) ----
    npc,              \* position of the network manager
    device_serials,   \* the serials that add_devices_to_network works on
    batch_start,      \* loop variable i of the batch loop (0-based offset)
    claimCalls,       \* the claim calls issued so far: batch and outcome
    claimed_devices,  \* serials of the batches that returned 200
    serial_numbers,   \* argument of verify_devices
    attempt,          \* verify_devices' attempt counter
    pollLog,          \* one entry per poll round performed
    verifyExit,       \* how verify_devices ended
    lastPoll,         \* the responses of the latest poll round
    netResult,        \* return value of add_devices_to_network
    \* ---- device mover (get_target_network_id / move_device) ----
    mpc,              \* position of the device mover
    networks,         \* the organization's network list as the remote returns it
    target_network,   \* DeviceMover.target_network
    device,           \* the device record handed to move_device
    target_network_id,\* value returned by get_target_network_id
    moveCalls,        \* detach and claim calls issued by move_device
    detachOutcome,    \* what the detach call ended with
    moveResult,       \* return value of move_device
    \* ---- vMX deployer (scrypt.py) ----
    vpc,              \* position of the vMX deployer
    network_id,       \* self.network_id of the deployer or network manager
    meraki,           \* network-management calls issued by the deployer
    cloud,            \* cloud API calls issued by the deployer: op and outcome
    created,          \* identifiers held in create_vpc_infrastructure's locals
    granted,          \* ingress rules granted on the security group
    deployment_results, \* deploy's accumulator: the keys recorded so far
    failure,          \* the stage deploy failed in
    vstep,            \* position inside the current stage's call sequence
    vattempt,         \* verify_vmx_deployment's attempt counter
    vmxPoll,          \* the response of verify_vmx_deployment's latest poll
    returned,         \* what deploy returned
    \* ---- command-line entry points (main) and MerakiNetworkManager.deploy ----
    program,          \* which program runs
    args,             \* command line: the state of the config file, --dry-run
    config,           \* the loaded configuration: its keys, its device_serials
    cpc,              \* position of main / deploy
    apiCalls,         \* network-management calls of the constructor and of deploy
    net_deployment_results, \* deployment_results of MerakiNetworkManager.deploy
    deploy_return,    \* what MerakiNetworkManager.deploy returned
    exit_code,        \* the process exit status, -1 while running
    \* ---- device relocation entry point (device_move.main) ----
    source_serial,    \* DeviceMover.source_serial
    inventory,        \* the inventory list as the remote returned it
    \* ---- service handlers (lambda_handler) ----
    handler,          \* which handler serves the request
    hpc,              \* position of the handler
    event,            \* the request body: the keys it has
    file_config,      \* keys of workinglocal/config.json
    deployment_result,\* keys of lambda_handler.py's deployment_result
    invocation,       \* what the handler finds: the state of config.json, of
                      \* the request body, and the type of the file's name
    hCalls,           \* remote calls issued while the handler ran
    response,         \* the handler's response: its status code, 0 while running
    \* ---- one remote call at the level of its HTTP attempts ----
    request,          \* the call under way: its call site
    attempts,         \* the attempts made for it, each with how it ended
    tpc,              \* sending, or how the call ended for its caller
    \* ---- two deployment runs side by side ----
    runs,             \* per run: position, config, network_id, results, calls
    remote,           \* the networks of the organization at the remote
    \* ---- deploy_and_move.py ----
    orchestration     \* position, files present, scripts run, exit code

netVars == <<npc, device_serials, batch_start, claimCalls, claimed_devices,
             serial_numbers, attempt, pollLog, verifyExit, lastPoll, netResult>>
moveVars == <<mpc, networks, target_network, device, target_network_id,
              moveCalls, detachOutcome, moveResult>>
vmxVars == <<vpc, network_id, meraki, cloud, created, granted,
             deployment_results, failure, vstep, vattempt, vmxPoll, returned>>
cliVars == <<program, args, config, cpc, apiCalls, net_deployment_results,
             deploy_return, exit_code>>
relocVars == <<source_serial, inventory>>
handlerVars ==
    <<handler, hpc, event, file_config, invocation, hCalls, response,
      deployment_result>>
transportVars == <<request, attempts, tpc>>
concVars == <<runs, remote>>
entryVars ==
    <<cliVars, relocVars, handlerVars, transportVars, concVars, orchestration>>
vars == <<netVars, moveVars, vmxVars, entryVars>>

\* Python's None and a returned value
None == [none |-> TRUE, val |-> <<>>]
Some(v) == [none |-> FALSE, val |-> v]

Min(a, b) == IF a < b THEN a ELSE b

(***************************************************************************)
(* Network manager: add_devices_to_network and verify_devices              *)
(***************************************************************************)

\* bounds of the model
MaxSerials == 21
MaxInventory == 2

\* program constants
batch_size == 10
max_attempts == 4

\* Serials are numbered by their position in the configured list.
SerialList(n) == [i \in 1..n |-> i]
\* the devices a poll of the network may show: the first serial of the first
\* batch and the first serial of the second one, which is a device nobody
\* asked for when the list has a single batch or the second batch was refused
PollUniverse == {1, batch_size + 1}
\* the serials a poll of the statuses may report on
StatusUniverse == {1, batch_size + 1}

RECURSIVE SetToSeq(_)
SetToSeq(S) ==
    IF S = {} THEN <<>>
    ELSE LET m == CHOOSE x \in S : \A y \in S : x <= y
         IN <<m>> \o SetToSeq(S \ {m})

Range(s) == {s[i] : i \in 1..Len(s)}

\* no poll round performed yet
NoPoll == [devices |-> <<>>, statuses |-> {}]

\* the network manager touches nothing of the other workflows
NetFrame == UNCHANGED <<moveVars, vmxVars, entryVars>>

NetIdle ==
    /\ npc = "idle"
    /\ device_serials = <<>>
    /\ batch_start = 0
    /\ claimCalls = <<>>
    /\ claimed_devices = <<>>
    /\ serial_numbers = <<>>
    /\ attempt = 0
    /\ pollLog = <<>>
    /\ verifyExit = "none"
    /\ lastPoll = NoPoll
    /\ netResult = None

\* add_devices_to_network(device_serials): n = 0 stands for None or []
NetInit ==
    /\ \E n \in 0..MaxSerials :
          /\ device_serials = SerialList(n)
          /\ npc = IF n = 0 THEN "inventory" ELSE "claim"
    /\ batch_start = 0
    /\ claimCalls = <<>>
    /\ claimed_devices = <<>>
    /\ serial_numbers = <<>>
    /\ attempt = 0
    /\ pollLog = <<>>
    /\ verifyExit = "none"
    /\ lastPoll = NoPoll
    /\ netResult = None

\* get_organization_inventory returned k available devices
InventoryFound(k) ==
    /\ NetFrame
    /\ npc = "inventory"
    /\ k > 0
    /\ device_serials' = SerialList(k)
    /\ npc' = "claim"
    /\ UNCHANGED <<batch_start, claimCalls, claimed_devices, serial_numbers,
                   attempt, pollLog, verifyExit, lastPoll, netResult>>

\* get_organization_inventory returned [] (no device, non-200, exception)
InventoryEmpty ==
    /\ NetFrame
    /\ npc = "inventory"
    /\ npc' = "done"
    /\ netResult' = None
    /\ UNCHANGED <<device_serials, batch_start, claimCalls, claimed_devices,
                   serial_numbers, attempt, pollLog, verifyExit, lastPoll>>

\* a slice that stops one serial short: device_serials[i:i + batch_size - 1]
BatchShortSlice(serials, i) ==
    SubSeq(serials, i + 1, Min(i + batch_size - 1, Len(serials)))

\* batch = device_serials[i:i + batch_size]
Batch(serials, i) == SubSeq(serials, i + 1, Min(i + batch_size, Len(serials)))

\* what follows the batch loop: verify the claimed serials, or give up
AfterLoop(claimed) ==
    IF claimed # <<>>
    THEN /\ npc' = "verify"
         /\ serial_numbers' = claimed
         /\ netResult' = netResult
    ELSE /\ npc' = "done"
         /\ serial_numbers' = serial_numbers
         /\ netResult' = None

\* one iteration of the batch loop whose claim call returned a response
ClaimResponse(status) ==
    LET batch == Batch(device_serials, batch_start)
        claimed == IF status = 200 THEN claimed_devices \o batch
                   ELSE claimed_devices
    IN /\ NetFrame
       /\ npc = "claim"
       /\ claimCalls' = Append(claimCalls,
             [serials |-> batch, outcome |-> status, networkId |-> network_id])
       /\ claimed_devices' = claimed
       /\ batch_start' = batch_start + batch_size
       /\ IF batch_start + batch_size < Len(device_serials)
          THEN UNCHANGED <<npc, serial_numbers, netResult>>
          ELSE AfterLoop(claimed)
       /\ UNCHANGED <<device_serials, attempt, pollLog, verifyExit, lastPoll>>

ClaimBatchOk == ClaimResponse(200)

ClaimBatchRejected == ClaimResponse(400)

\* the claim call raised requests.exceptions.RequestException: the handler
\* encloses the whole loop
ClaimBatchException ==
    /\ NetFrame
    /\ npc = "claim"
    /\ claimCalls' = Append(claimCalls,
          [serials |-> Batch(device_serials, batch_start), outcome |-> -1,
           networkId |-> network_id])
    /\ npc' = "done"
    /\ netResult' = None
    /\ UNCHANGED <<device_serials, batch_start, claimed_devices, serial_numbers,
                   attempt, pollLog, verifyExit, lastPoll>>

\* a join that forgets the test `device['serial'] in serial_numbers`
MatchedUnfiltered(devices, statuses, requested) ==
    [i \in 1..Len(devices) |->
        [serial |-> devices[i],
         connectionStatus |-> IF devices[i] \in statuses THEN "online" ELSE "None"]]

\* a join that gives every device the status of the first status entry
MatchedAnyStatus(devices, statuses, requested) ==
    LET keep == SelectSeq(devices, LAMBDA d : d \in Range(requested))
    IN [i \in 1..Len(keep) |->
           [serial |-> keep[i],
            connectionStatus |-> IF statuses # {} THEN "online" ELSE "None"]]

\* the join of verify_devices: the devices of the list whose serial was
\* requested, each with the status of the status entry of the same serial
Matched(devices, statuses, requested) ==
    LET keep == SelectSeq(devices, LAMBDA d : d \in Range(requested))
    IN [i \in 1..Len(keep) |->
           [serial |-> keep[i],
            connectionStatus |-> IF keep[i] \in statuses THEN "online" ELSE "None"]]

\* attempt += 1, then the loop condition: the loop ends with the timeout
CountAttempt ==
    /\ attempt' = attempt + 1
    /\ IF attempt + 1 < max_attempts
       THEN UNCHANGED <<npc, verifyExit, netResult>>
       ELSE /\ npc' = "done"
            /\ verifyExit' = "timeout"
            /\ netResult' = None

\* a poll round in which both calls returned 200
VerifyRoundOk(devices, statuses) ==
    LET claimed == Matched(devices, statuses, serial_numbers)
    IN /\ NetFrame
       /\ npc = "verify"
       /\ pollLog' = Append(pollLog,
             [status_code |-> 200, devices_code |-> 200,
              devices |-> devices, matched |-> claimed,
              network |-> network_id])
       /\ lastPoll' = [devices |-> devices, statuses |-> statuses]
       /\ IF claimed # <<>>
          THEN /\ npc' = "done"
               /\ verifyExit' = "found"
               /\ netResult' = Some(claimed)
               /\ UNCHANGED attempt
          ELSE CountAttempt
       /\ UNCHANGED <<device_serials, batch_start, claimCalls, claimed_devices,
                      serial_numbers>>

\* a poll round in which one of the two calls returned another status
VerifyRoundFailed(status_code, devices_code) ==
    /\ NetFrame
    /\ npc = "verify"
    /\ ~(status_code = 200 /\ devices_code = 200)
    /\ pollLog' = Append(pollLog,
          [status_code |-> status_code, devices_code |-> devices_code,
           devices |-> <<>>, matched |-> <<>>, network |-> network_id])
    /\ lastPoll' = NoPoll
    /\ npc' = "done"
    /\ verifyExit' = "failed"
    /\ netResult' = None
    /\ UNCHANGED <<device_serials, batch_start, claimCalls, claimed_devices,
                   serial_numbers, attempt>>

\* a loop in which a round that raised is not counted as an attempt
VerifyRoundExceptionUncounted ==
    /\ NetFrame
    /\ npc = "verify"
    /\ pollLog' = Append(pollLog,
          [status_code |-> -1, devices_code |-> -1,
           devices |-> <<>>, matched |-> <<>>, network |-> network_id])
    /\ lastPoll' = NoPoll
    /\ Len(pollLog) < max_attempts + 1
    /\ UNCHANGED <<npc, verifyExit, netResult, attempt, device_serials,
                   batch_start, claimCalls, claimed_devices, serial_numbers>>

\* a poll round in which one of the two calls raised RequestException
VerifyRoundException ==
    /\ NetFrame
    /\ npc = "verify"
    /\ pollLog' = Append(pollLog,
          [status_code |-> -1, devices_code |-> -1,
           devices |-> <<>>, matched |-> <<>>, network |-> network_id])
    /\ lastPoll' = NoPoll
    /\ CountAttempt
    /\ UNCHANGED <<device_serials, batch_start, claimCalls, claimed_devices,
                   serial_numbers>>

NetNext ==
    \/ \E k \in 1..MaxInventory : InventoryFound(k)
    \/ InventoryEmpty
    \/ ClaimBatchOk
    \/ ClaimBatchRejected
    \/ ClaimBatchException
    \/ \E D \in SUBSET PollUniverse, S \in SUBSET StatusUniverse :
          VerifyRoundOk(SetToSeq(D), S)
    \/ \E sc \in {200, 500}, dc \in {200, 500} : VerifyRoundFailed(sc, dc)
    \/ VerifyRoundException

(***************************************************************************)
(* Device mover: get_target_network_id and move_device                     *)
(***************************************************************************)

\* bound of the model: length of the organization's network list
MaxNetworks == 3

\* Names are sequences of character codes, so that lower() and startswith()
\* are computed and not assumed.
Lower(c) == IF c \in 65..90 THEN c + 32 ELSE c
LowerStr(s) == [i \in 1..Len(s) |-> Lower(s[i])]
StartsWith(s, p) == Len(s) >= Len(p) /\ SubSeq(s, 1, Len(p)) = p

\* 'meraki-network'
NamePrefix == <<109, 101, 114, 97, 107, 105, 45, 110, 101, 116, 119, 111, 114, 107>>
\* "Branch-1", "branch-1", "BRANCH-1", "Meraki-Network-test", "HQ"
NameBranch == <<66, 114, 97, 110, 99, 104, 45, 49>>
NameBranchLower == <<98, 114, 97, 110, 99, 104, 45, 49>>
NameBranchUpper == <<66, 82, 65, 78, 67, 72, 45, 49>>
NameMerakiTest == <<77, 101, 114, 97, 107, 105, 45, 78, 101, 116, 119, 111, 114,
                    107, 45, 116, 101, 115, 116>>
NameHQ == <<72, 81>>
NetworkNames == {NameBranch, NameBranchUpper, NameMerakiTest, NameHQ}
TargetNames == {NameBranch, NameBranchLower}

\* The remote's network lists: the network at position i has id i.
NetworkLists ==
    UNION {[1..n -> NetworkNames] : n \in 0..MaxNetworks}
AsNetworks(names) == [i \in 1..Len(names) |-> [name |-> names[i], id |-> i]]

SourceSerial == "Q2XX-ABCD-1234"

\* the device mover touches nothing of the other workflows
MoveFrame == UNCHANGED <<netVars, vmxVars, entryVars>>

MoveIdle ==
    /\ mpc = "idle"
    /\ networks = <<>>
    /\ target_network = NameBranch
    /\ device = [serial |-> SourceSerial, networkId |-> 0]
    /\ target_network_id = 0
    /\ moveCalls = <<>>
    /\ detachOutcome = "none"
    /\ moveResult = "none"

\* the mover after get_device_details returned a device record; networkId 0
\* stands for a record without a current network
MoveInit ==
    /\ mpc = "lookup_target"
    /\ networks = <<>>
    /\ target_network \in TargetNames
    /\ \E a \in 0..MaxNetworks : device = [serial |-> SourceSerial, networkId |-> a]
    /\ target_network_id = 0
    /\ moveCalls = <<>>
    /\ detachOutcome = "none"
    /\ moveResult = "none"

\* GET /organizations/{org_id}/networks
ListNetworksCall == [op |-> "list_networks", network |-> 0, serials |-> <<>>]

\* a call together with what it ended with
Logged(call, outcome) ==
    [op |-> call.op, network |-> call.network, serials |-> call.serials,
     outcome |-> outcome]

\* the condition of the generator in get_target_network_id
TargetMatches(n, target) ==
    \/ LowerStr(n.name) = LowerStr(target)
    \/ StartsWith(LowerStr(n.name), NamePrefix)

\* next(..., None): position of the first network that matches, 0 for None
FindTarget(nets, target) ==
    LET hits == {i \in 1..Len(nets) : TargetMatches(nets[i], target)}
    IN IF hits = {} THEN 0 ELSE CHOOSE i \in hits : \A j \in hits : i <= j

\* get_target_network_id: the list call returned 200 with `names`;
\* main goes on to move_device when an id came back and exits 1 otherwise
TargetLookupOk(names) ==
    LET nets == AsNetworks(names)
        hit == FindTarget(nets, target_network)
    IN /\ MoveFrame
       /\ mpc = "lookup_target"
       /\ networks' = nets
       /\ moveCalls' = Append(moveCalls, Logged(ListNetworksCall, "200"))
       /\ IF hit # 0
          THEN /\ target_network' = nets[hit].name
               /\ target_network_id' = nets[hit].id
               /\ mpc' = IF device.networkId # 0 THEN "detach" ELSE "claim"
          ELSE /\ UNCHANGED <<target_network, target_network_id>>
               /\ mpc' = "done"
       /\ UNCHANGED <<device, detachOutcome, moveResult>>

\* get_target_network_id: the list call returned another status or raised
TargetLookupFailed(outcome) ==
    /\ MoveFrame
    /\ mpc = "lookup_target"
    /\ moveCalls' = Append(moveCalls, Logged(ListNetworksCall, outcome))
    /\ mpc' = "done"
    /\ UNCHANGED <<networks, target_network, device, target_network_id,
                   detachOutcome, moveResult>>

\* POST /networks/{device['networkId']}/devices/{device['serial']}/remove
DetachCall(dev) ==
    [op |-> "remove", network |-> dev.networkId, serials |-> <<dev.serial>>]

\* a claim addressed to the network the device is in
ClaimCallToCurrentNetwork(dev, target) ==
    [op |-> "claim", network |-> dev.networkId, serials |-> <<dev.serial>>]

\* POST /networks/{target_network_id}/devices/claim with the device's serial
ClaimCall(dev, target) ==
    [op |-> "claim", network |-> target, serials |-> <<dev.serial>>]

\* the detach call returned a response; its status is not looked at
DetachResponse(status) ==
    /\ MoveFrame
    /\ mpc = "detach"
    /\ moveCalls' = Append(moveCalls, Logged(DetachCall(device), status))
    /\ detachOutcome' = status
    /\ mpc' = "claim"
    /\ UNCHANGED <<networks, target_network, device, target_network_id, moveResult>>

\* the detach call raised (timeout, connection error, retries exhausted):
\* move_device's handler returns False
DetachException(kind) ==
    /\ MoveFrame
    /\ mpc = "detach"
    /\ moveCalls' = Append(moveCalls, Logged(DetachCall(device), kind))
    /\ detachOutcome' = kind
    /\ moveResult' = "False"
    /\ mpc' = "done"
    /\ UNCHANGED <<networks, target_network, device, target_network_id>>

\* the claim call returned a response
ClaimTargetResponse(status) ==
    /\ MoveFrame
    /\ mpc = "claim"
    /\ moveCalls' = Append(moveCalls,
          Logged(ClaimCall(device, target_network_id), status))
    /\ moveResult' = IF status \in {"200", "201"} THEN "True" ELSE "False"
    /\ mpc' = "done"
    /\ UNCHANGED <<networks, target_network, device, target_network_id, detachOutcome>>

\* the claim call raised
ClaimTargetException ==
    /\ MoveFrame
    /\ mpc = "claim"
    /\ moveCalls' = Append(moveCalls,
          Logged(ClaimCall(device, target_network_id), "exception"))
    /\ moveResult' = "False"
    /\ mpc' = "done"
    /\ UNCHANGED <<networks, target_network, device, target_network_id, detachOutcome>>

MoveNext ==
    \/ \E names \in NetworkLists : TargetLookupOk(names)
    \/ \E outcome \in {"500", "exception"} : TargetLookupFailed(outcome)
    \/ \E status \in {"204", "404", "500"} : DetachResponse(status)
    \/ \E kind \in {"timeout", "connection", "retries"} : DetachException(kind)
    \/ \E status \in {"200", "201", "400"} : ClaimTargetResponse(status)
    \/ ClaimTargetException

(***************************************************************************)
(* vMX deployer: MerakiVMXDeployer.deploy and the stages it drives         *)
(***************************************************************************)

\* program constant: max_attempts of verify_vmx_deployment
vmx_max_attempts == 30

\* the cloud calls of create_vpc_infrastructure up to the security group,
\* in program order
InfraOps ==
    <<"create_vpc", "wait_vpc_available", "modify_vpc_attribute_hostnames",
      "modify_vpc_attribute_support", "create_internet_gateway",
      "attach_internet_gateway", "create_subnet", "create_route_table",
      "create_route", "associate_route_table", "create_security_group">>

\* the identifier a creation call leaves in the function's locals
InfraLocal(op) ==
    CASE op = "create_vpc" -> {"vpc_id"}
      [] op = "create_internet_gateway" -> {"internet_gateway_id"}
      [] op = "create_subnet" -> {"subnet_id"}
      [] op = "create_route_table" -> {"route_table_id"}
      [] op = "create_security_group" -> {"security_group_id"}
      [] OTHER -> {}

\* waiters raise WaiterError, which is no ClientError
IsWaiter(op) == op \in {"wait_vpc_available", "wait_instance_running"}

\* security_rules of configure_vmx_security_group, in program order;
\* a rule without ports covers the whole protocol (-1)
security_rules ==
    <<[IpProtocol |-> "tcp", FromPort |-> 22, ToPort |-> 22],
      [IpProtocol |-> "tcp", FromPort |-> 443, ToPort |-> 443],
      [IpProtocol |-> "50", FromPort |-> -1, ToPort |-> -1],
      [IpProtocol |-> "51", FromPort |-> -1, ToPort |-> -1],
      [IpProtocol |-> "udp", FromPort |-> 500, ToPort |-> 500],
      [IpProtocol |-> "udp", FromPort |-> 4500, ToPort |-> 4500],
      [IpProtocol |-> "icmp", FromPort |-> -1, ToPort |-> -1]>>

\* the IAM calls of create_vmx_iam_role, in program order
IamOps ==
    <<"create_role", "attach_role_policy_cloudwatch", "attach_role_policy_ssm",
      "create_instance_profile", "add_role_to_instance_profile",
      "get_instance_profile">>

\* the dictionary create_vpc_infrastructure returns
InfrastructureDict ==
    [vpc_id |-> "vpc-1", subnet_id |-> "subnet-1", security_group_id |-> "sg-1",
     internet_gateway_id |-> "igw-1", route_table_id |-> "rtb-1"]

\* the dictionary deploy_vmx_instance returns
InstanceDict ==
    [instance_id |-> "i-1", public_ip |-> "198.51.100.7",
     private_ip |-> "10.0.1.7", ami_id |-> "ami-1"]

\* 'vMX', and the model names "vMX-M" and "MX68"
ModelPrefix == <<118, 77, 88>>
ModelVmxM == <<118, 77, 88, 45, 77>>
ModelMx68 == <<77, 88, 54, 56>>

\* the devices the deployer's network may show: a vMX appliance and a device
\* of another kind
VmxDevices ==
    {[serial |-> "Q2VX-0001", model |-> ModelVmxM],
     [serial |-> "Q2MX-0001", model |-> ModelMx68]}

\* the device lists a poll may return: up to two devices, none twice
VmxDeviceLists ==
    {l \in UNION {[1..n -> VmxDevices] : n \in 0..2} :
        \A i, j \in 1..Len(l) : i # j => l[i] # l[j]}

\* no poll performed yet
NoVmxPoll == [status |-> 0, devices |-> <<>>]

\* the loop of verify_vmx_deployment: position of the first device whose
\* model starts with 'vMX', 0 when there is none
FirstVmx(devices) ==
    LET hits == {i \in 1..Len(devices) : StartsWith(devices[i].model, ModelPrefix)}
    IN IF hits = {} THEN 0 ELSE CHOOSE i \in hits : \A j \in hits : i <= j

\* the vMX deployer touches nothing of the other workflows
VmxFrame == UNCHANGED <<netVars, moveVars, entryVars>>

VmxIdle ==
    /\ vpc = "idle"
    /\ network_id = ""
    /\ meraki = <<>>
    /\ cloud = <<>>
    /\ created = {}
    /\ granted = {}
    /\ deployment_results = <<>>
    /\ failure = "none"
    /\ vstep = 1
    /\ vattempt = 0
    /\ vmxPoll = NoVmxPoll
    /\ returned = None

\* deploy() is entered with the configured network_id, "" when there is none
VmxInit ==
    /\ network_id \in {"", "N_configured"}
    /\ vpc = IF network_id = "" THEN "create_network" ELSE "token"
    /\ meraki = <<>>
    /\ cloud = <<>>
    /\ created = {}
    /\ granted = {}
    /\ deployment_results = <<>>
    /\ failure = "none"
    /\ vstep = 1
    /\ vattempt = 0
    /\ vmxPoll = NoVmxPoll
    /\ returned = None

CloudCall(op, outcome) == [op |-> op, outcome |-> outcome, arg |-> ""]

\* a cleanup that also tears down the virtual network
CleanupCallsTeardown(resources) ==
    <<[op |-> "delete_vpc", outcome |-> "ok", arg |-> ""]>>

\* cleanup_on_failure(resources): terminate the instance whose id is a key of
\* resources
CleanupCalls(resources) ==
    IF "instance_id" \in DOMAIN resources
    THEN <<[op |-> "terminate_instances", outcome |-> "ok",
            arg |-> resources["instance_id"]]>>
    ELSE <<>>

\* a deploy that hands back its accumulator when a stage failed
FailedReturnPartial(results) == Some(results)

\* the value deploy returns when a stage failed
FailedReturn(results) == None

\* deploy gives up in `stage` after the cloud calls `calls`: a stage that
\* returned None without cleanup
Abort(stage, calls) ==
    /\ cloud' = cloud \o calls
    /\ failure' = stage
    /\ returned' = FailedReturn(deployment_results)
    /\ vpc' = "done"

\* deploy gives up in `stage` and runs cleanup_on_failure on its accumulator
AbortWithCleanup(stage, calls) ==
    Abort(stage, calls \o CleanupCalls(deployment_results))

\* the tokens a 201 response of the token call may carry
Tokens == {"T-1", "T-2"}

MerakiCall(op, status) ==
    [op |-> op, status |-> status, network |-> network_id, token |-> ""]

\* a bootstrap script that carries a token fixed in advance
UserDataStale(auth_token, network) ==
    [encoding |-> "base64",
     script |-> <<[line |-> "echo_auth_token", value |-> "T-1"],
                  [line |-> "network_id", value |-> network],
                  [line |-> "auth_token", value |-> "T-1"]>>]

\* create_vmx_user_data: the lines of the bootstrap script that embed a
\* value, base64-encoded
UserData(auth_token, network) ==
    [encoding |-> "base64",
     script |-> <<[line |-> "echo_auth_token", value |-> auth_token],
                  [line |-> "network_id", value |-> network],
                  [line |-> "auth_token", value |-> auth_token]>>]

\* the run_instances call with its UserData parameter
RunCall(outcome, arg, user_data) ==
    [op |-> "run_instances", outcome |-> outcome, arg |-> arg,
     user_data |-> user_data]

\* ---- stage 1: generate_vmx_authentication_token ----

\* the create-network call returned a response; only 201 creates the network
TokenCreateNetwork(status) ==
    /\ VmxFrame
    /\ vpc = "create_network"
    /\ meraki' = Append(meraki, MerakiCall("create_network", status))
    /\ IF status = 201
       THEN /\ network_id' = "N_created"
            /\ vpc' = "token"
            /\ UNCHANGED <<cloud, failure, returned>>
       ELSE /\ Abort("token", <<>>)
            /\ UNCHANGED network_id
    /\ UNCHANGED <<created, granted, deployment_results, vstep, vattempt, vmxPoll>>

\* the token call returned a response; only 201 carries a token
TokenRequest(status, token) ==
    /\ VmxFrame
    /\ vpc = "token"
    /\ meraki' = Append(meraki,
          [MerakiCall("authenticationToken", status) EXCEPT
              !.token = IF status = 201 THEN token ELSE ""])
    /\ IF status = 201
       THEN /\ vpc' = "store_token"
            /\ UNCHANGED <<cloud, failure, returned>>
       ELSE Abort("token", <<>>)
    /\ UNCHANGED <<network_id, created, granted, deployment_results, vstep, vattempt, vmxPoll>>

\* either call of the stage raised RequestException
TokenStageException ==
    /\ VmxFrame
    /\ vpc \in {"create_network", "token"}
    /\ meraki' = Append(meraki,
          MerakiCall(IF vpc = "token" THEN "authenticationToken" ELSE "create_network", -1))
    /\ Abort("token", <<>>)
    /\ UNCHANGED <<network_id, created, granted, deployment_results, vstep, vattempt, vmxPoll>>

\* store_token_in_ssm: a ClientError is logged and swallowed; deploy then
\* records the token and the network id
StoreToken(outcome) ==
    /\ VmxFrame
    /\ vpc = "store_token"
    /\ outcome \in {"ok", "ClientError"}
    /\ cloud' = Append(cloud, CloudCall("put_parameter", outcome))
    /\ deployment_results' =
          ("auth_token" :> meraki[Len(meraki)].token) @@ ("network_id" :> network_id)
    /\ vpc' = "infra"
    /\ vstep' = 1
    /\ UNCHANGED <<network_id, meraki, created, granted, failure, vattempt, returned, vmxPoll>>

\* store_token_in_ssm raised something else: it reaches deploy's handler
StoreTokenError ==
    /\ VmxFrame
    /\ vpc = "store_token"
    /\ AbortWithCleanup("token", <<CloudCall("put_parameter", "other")>>)
    /\ UNCHANGED <<network_id, meraki, created, granted, deployment_results,
                   vstep, vattempt, vmxPoll>>

\* ---- stage 2: create_vpc_infrastructure ----

InfraCallOk ==
    /\ VmxFrame
    /\ vpc = "infra"
    /\ cloud' = Append(cloud, CloudCall(InfraOps[vstep], "ok"))
    /\ created' = created \cup InfraLocal(InfraOps[vstep])
    /\ IF vstep < Len(InfraOps)
       THEN /\ vstep' = vstep + 1
            /\ UNCHANGED vpc
       ELSE /\ vstep' = 1
            /\ vpc' = "sg_rules"
    /\ UNCHANGED <<network_id, meraki, granted, deployment_results, failure,
                   vattempt, returned, vmxPoll>>

\* a stage whose ClientError is logged and the next call issued all the same
InfraCallClientErrorSwallowed ==
    /\ VmxFrame
    /\ vpc = "infra"
    /\ ~IsWaiter(InfraOps[vstep])
    /\ cloud' = Append(cloud, CloudCall(InfraOps[vstep], "ClientError"))
    /\ IF vstep < Len(InfraOps)
       THEN /\ vstep' = vstep + 1
            /\ UNCHANGED vpc
       ELSE /\ vstep' = 1
            /\ vpc' = "sg_rules"
    /\ UNCHANGED <<network_id, meraki, created, granted, deployment_results,
                   failure, vattempt, returned, vmxPoll>>

\* a call of the stage raised ClientError: the function's handler returns
\* None and deploy returns None
InfraCallClientError ==
    /\ VmxFrame
    /\ vpc = "infra"
    /\ ~IsWaiter(InfraOps[vstep])
    /\ Abort("infrastructure", <<CloudCall(InfraOps[vstep], "ClientError")>>)
    /\ UNCHANGED <<network_id, meraki, created, granted, deployment_results,
                   vstep, vattempt, vmxPoll>>

\* a call of the stage raised another exception: deploy's handler
InfraCallOtherError ==
    /\ VmxFrame
    /\ vpc = "infra"
    /\ AbortWithCleanup("infrastructure", <<CloudCall(InfraOps[vstep], "other")>>)
    /\ UNCHANGED <<network_id, meraki, created, granted, deployment_results,
                   vstep, vattempt, vmxPoll>>

\* create_vpc_infrastructure returns its dictionary and deploy records it
InfraReturns ==
    /\ deployment_results' =
          deployment_results @@ ("infrastructure" :> InfrastructureDict)
    /\ vpc' = "ami"
    /\ vstep' = 1

\* configure_vmx_security_group: one authorize call per rule
AuthorizeOk ==
    /\ VmxFrame
    /\ vpc = "sg_rules"
    /\ cloud' = Append(cloud, CloudCall("authorize_security_group_ingress", "ok"))
    /\ granted' = granted \cup {security_rules[vstep]}
    /\ IF vstep < Len(security_rules)
       THEN /\ vstep' = vstep + 1
            /\ UNCHANGED <<vpc, deployment_results>>
       ELSE InfraReturns
    /\ UNCHANGED <<network_id, meraki, created, failure, vattempt, returned, vmxPoll>>

\* an authorize call raised ClientError: the handler around the loop logs it
\* and configure_vmx_security_group returns
AuthorizeClientError ==
    /\ VmxFrame
    /\ vpc = "sg_rules"
    /\ cloud' = Append(cloud,
          CloudCall("authorize_security_group_ingress", "ClientError"))
    /\ InfraReturns
    /\ UNCHANGED <<network_id, meraki, created, granted, failure, vattempt, returned, vmxPoll>>

AuthorizeOtherError ==
    /\ VmxFrame
    /\ vpc = "sg_rules"
    /\ AbortWithCleanup("infrastructure",
          <<CloudCall("authorize_security_group_ingress", "other")>>)
    /\ UNCHANGED <<network_id, meraki, created, granted, deployment_results,
                   vstep, vattempt, vmxPoll>>

\* ---- stage 3: deploy_vmx_instance ----

\* get_vmx_ami_id found an image
AmiFound ==
    /\ VmxFrame
    /\ vpc = "ami"
    /\ cloud' = Append(cloud, CloudCall("describe_images", "ok"))
    /\ vpc' = "iam"
    /\ vstep' = 1
    /\ UNCHANGED <<network_id, meraki, created, granted, deployment_results,
                   failure, vattempt, returned, vmxPoll>>

\* no image, ClientError or another exception: deploy_vmx_instance yields
\* nothing and deploy cleans up
AmiFailed(outcome) ==
    /\ VmxFrame
    /\ vpc = "ami"
    /\ AbortWithCleanup("instance", <<CloudCall("describe_images", outcome)>>)
    /\ UNCHANGED <<network_id, meraki, created, granted, deployment_results,
                   vstep, vattempt, vmxPoll>>

\* create_vmx_iam_role: the calls in order
IamCallOk ==
    /\ VmxFrame
    /\ vpc = "iam"
    /\ cloud' = Append(cloud, CloudCall(IamOps[vstep], "ok"))
    /\ IF vstep < Len(IamOps)
       THEN /\ vstep' = vstep + 1
            /\ UNCHANGED vpc
       ELSE /\ vstep' = 1
            /\ vpc' = "run"
    /\ UNCHANGED <<network_id, meraki, created, granted, deployment_results,
                   failure, vattempt, returned, vmxPoll>>

\* ClientError in create_vmx_iam_role: a warning, the launch goes on without
\* an instance profile
IamCallClientError ==
    /\ VmxFrame
    /\ vpc = "iam"
    /\ cloud' = Append(cloud, CloudCall(IamOps[vstep], "ClientError"))
    /\ vstep' = 1
    /\ vpc' = "run"
    /\ UNCHANGED <<network_id, meraki, created, granted, deployment_results,
                   failure, vattempt, returned, vmxPoll>>

IamCallOtherError ==
    /\ VmxFrame
    /\ vpc = "iam"
    /\ AbortWithCleanup("instance", <<CloudCall(IamOps[vstep], "other")>>)
    /\ UNCHANGED <<network_id, meraki, created, granted, deployment_results,
                   vstep, vattempt, vmxPoll>>

\* run_instances returned the instance id
RunInstancesOk ==
    /\ VmxFrame
    /\ vpc = "run"
    /\ cloud' = Append(cloud,
          RunCall("ok", InstanceDict.instance_id,
                  UserData(deployment_results["auth_token"], network_id)))
    /\ vpc' = "wait_running"
    /\ UNCHANGED <<network_id, meraki, created, granted, deployment_results,
                   failure, vstep, vattempt, returned, vmxPoll>>

RunInstancesFailed(outcome) ==
    /\ VmxFrame
    /\ vpc = "run"
    /\ AbortWithCleanup("instance",
          <<RunCall(outcome, "",
                    UserData(deployment_results["auth_token"], network_id))>>)
    /\ UNCHANGED <<network_id, meraki, created, granted, deployment_results,
                   vstep, vattempt, vmxPoll>>

\* the instance_running waiter returned
WaitRunningOk ==
    /\ VmxFrame
    /\ vpc = "wait_running"
    /\ cloud' = Append(cloud, CloudCall("wait_instance_running", "ok"))
    /\ vpc' = "describe"
    /\ UNCHANGED <<network_id, meraki, created, granted, deployment_results,
                   failure, vstep, vattempt, returned, vmxPoll>>

\* the waiter raised WaiterError: it reaches deploy's handler
WaitRunningFailed ==
    /\ VmxFrame
    /\ vpc = "wait_running"
    /\ AbortWithCleanup("instance", <<CloudCall("wait_instance_running", "other")>>)
    /\ UNCHANGED <<network_id, meraki, created, granted, deployment_results,
                   vstep, vattempt, vmxPoll>>

\* describe_instances returned the addresses; deploy records the instance
DescribeOk ==
    /\ VmxFrame
    /\ vpc = "describe"
    /\ cloud' = Append(cloud, CloudCall("describe_instances", "ok"))
    /\ deployment_results' = deployment_results @@ ("instance" :> InstanceDict)
    /\ vpc' = "verify"
    /\ vattempt' = 0
    /\ UNCHANGED <<network_id, meraki, created, granted, failure, vstep, returned, vmxPoll>>

DescribeFailed(outcome) ==
    /\ VmxFrame
    /\ vpc = "describe"
    /\ AbortWithCleanup("instance", <<CloudCall("describe_instances", outcome)>>)
    /\ UNCHANGED <<network_id, meraki, created, granted, deployment_results,
                   vstep, vattempt, vmxPoll>>

\* ---- stage 4: verify_vmx_deployment and the summary ----

\* a poll returned 200 with a device whose model starts with 'vMX': the first
\* such device is returned and deploy records it
VmxPollFound(devices) ==
    /\ VmxFrame
    /\ vpc = "verify"
    /\ FirstVmx(devices) # 0
    /\ vmxPoll' = [status |-> 200, devices |-> devices]
    /\ deployment_results' =
          deployment_results @@ ("device" :> devices[FirstVmx(devices)])
    /\ vpc' = "summary"
    /\ UNCHANGED <<network_id, meraki, cloud, created, granted, failure, vstep,
                   vattempt, returned>>

\* a loop that does not count the polls without a vMX
VmxPollEmptyUncounted(devices) ==
    /\ VmxFrame
    /\ vpc = "verify"
    /\ FirstVmx(devices) = 0
    /\ vmxPoll' = [status |-> 200, devices |-> devices]
    /\ UNCHANGED <<vpc, network_id, meraki, cloud, created, granted,
                   deployment_results, failure, vstep, vattempt, returned>>

\* a poll returned 200 without such a device: sleep, attempt += 1
VmxPollEmpty(devices) ==
    /\ VmxFrame
    /\ vpc = "verify"
    /\ FirstVmx(devices) = 0
    /\ vmxPoll' = [status |-> 200, devices |-> devices]
    /\ vattempt' = vattempt + 1
    /\ vpc' = IF vattempt + 1 < vmx_max_attempts THEN "verify" ELSE "summary"
    /\ UNCHANGED <<network_id, meraki, cloud, created, granted,
                   deployment_results, failure, vstep, returned>>

\* a deploy that takes a failed poll for a failed deployment: cleanup, None
VmxPollFailedAborting(status) ==
    /\ VmxFrame
    /\ vpc = "verify"
    /\ status # 200
    /\ vmxPoll' = [status |-> status, devices |-> <<>>]
    /\ AbortWithCleanup("verify", <<>>)
    /\ UNCHANGED <<network_id, meraki, created, granted, deployment_results,
                   vstep, vattempt>>

\* a poll returned another status or raised (-1): break
VmxPollFailed(status) ==
    /\ VmxFrame
    /\ vpc = "verify"
    /\ status # 200
    /\ vmxPoll' = [status |-> status, devices |-> <<>>]
    /\ vpc' = "summary"
    /\ UNCHANGED <<network_id, meraki, cloud, created, granted,
                   deployment_results, failure, vstep, vattempt, returned>>

\* generate_deployment_summary wrote its file; deploy returns the results
SummaryWritten ==
    /\ VmxFrame
    /\ vpc = "summary"
    /\ returned' = Some(deployment_results)
    /\ vpc' = "done"
    /\ UNCHANGED <<network_id, meraki, cloud, created, granted,
                   deployment_results, failure, vstep, vattempt, vmxPoll>>

\* writing the summary file raised: deploy's handler
SummaryFailed ==
    /\ VmxFrame
    /\ vpc = "summary"
    /\ AbortWithCleanup("summary", <<>>)
    /\ UNCHANGED <<network_id, meraki, created, granted, deployment_results,
                   vstep, vattempt, vmxPoll>>

VmxNext ==
    \/ \E status \in {201, 200, 400} : TokenCreateNetwork(status)
    \/ \E status \in {201, 200, 400}, token \in Tokens : TokenRequest(status, token)
    \/ TokenStageException
    \/ \E outcome \in {"ok", "ClientError"} : StoreToken(outcome)
    \/ StoreTokenError
    \/ InfraCallOk
    \/ InfraCallClientError
    \/ InfraCallOtherError
    \/ AuthorizeOk
    \/ AuthorizeClientError
    \/ AuthorizeOtherError
    \/ AmiFound
    \/ \E outcome \in {"empty", "ClientError", "other"} : AmiFailed(outcome)
    \/ IamCallOk
    \/ IamCallClientError
    \/ IamCallOtherError
    \/ RunInstancesOk
    \/ \E outcome \in {"ClientError", "other"} : RunInstancesFailed(outcome)
    \/ WaitRunningOk
    \/ WaitRunningFailed
    \/ DescribeOk
    \/ \E outcome \in {"ClientError", "other"} : DescribeFailed(outcome)
    \/ \E devices \in VmxDeviceLists : VmxPollFound(devices)
    \/ \E devices \in VmxDeviceLists : VmxPollEmpty(devices)
    \/ \E status \in {500, -1} : VmxPollFailed(status)
    \/ SummaryWritten
    \/ SummaryFailed

(***************************************************************************)
(* Command-line entry points: main() of meraki_network24JULY.py, of        *)
(* workinglocal/meraki_network.py and of scrypt.py, with the deploy methods *)
(* of the two network managers                                             *)
(***************************************************************************)

\* bound of the model: number of serials a configuration lists
MaxConfigSerials == 2

\* program constant: max_retries of get_organization_inventory
max_retries == 3

Programs == {"network24", "network_local", "scrypt"}

\* a main() that validates nothing
RequiredFieldsNone(prog) == {}

\* required_fields of main()
RequiredFields(prog) ==
    IF prog = "scrypt"
    THEN {"meraki_api_key", "organization_id", "aws_region", "key_pair_name"}
    ELSE {"meraki_api_key", "organization_id"}

\* the keys a configuration file of the program may hold
ConfigKeys(prog) ==
    {"network_id"} \cup
    (IF prog = "scrypt"
     THEN {"meraki_api_key", "organization_id", "aws_region", "key_pair_name"}
     ELSE {"meraki_api_key", "organization_id"})

\* `if result:` a returned dictionary that is not empty
Truthy(result) == ~result.none /\ DOMAIN result.val # {}

ApiCall(op, status) == [op |-> op, status |-> status]

\* the entry points touch nothing of the mover, the relocation entry point
\* and the service handlers
CliFrame ==
    UNCHANGED <<moveVars, relocVars, handlerVars, transportVars, concVars, orchestration>>

CliIdle ==
    /\ program = "none"
    /\ args = [file |-> "ok", dry_run |-> FALSE]
    /\ config = [keys |-> {}, device_serials |-> <<>>]
    /\ cpc = "idle"
    /\ apiCalls = <<>>
    /\ net_deployment_results = <<>>
    /\ deploy_return = None
    /\ exit_code = -1

RelocIdle ==
    /\ source_serial = <<>>
    /\ inventory = <<>>

\* a readable config.json with a string for a name, a body that is JSON
NoInvocation == [config_file |-> "ok", body |-> "json", name_type |-> "str"]

HandlerIdle ==
    /\ handler = "none"
    /\ hpc = "idle"
    /\ event = {}
    /\ file_config = {}
    /\ invocation = NoInvocation
    /\ hCalls = <<>>
    /\ response = 0
    /\ deployment_result = {}

\* main() of one of `progs` is started on a configuration file that is
\* missing, is no JSON, or holds some of the program's keys
CliInit(progs) ==
    /\ program \in progs
    /\ \E f \in {"ok", "missing", "invalid"}, d \in BOOLEAN :
          /\ d => program = "scrypt"
          /\ args = [file |-> f, dry_run |-> d]
    /\ \E K \in SUBSET ConfigKeys(program), n \in 0..MaxConfigSerials :
          /\ args.file # "ok" => K = {} /\ n = 0
          /\ program # "network24" => n = 0
          /\ config = [keys |-> K, device_serials |-> SerialList(n)]
    /\ cpc = "main"
    /\ apiCalls = <<>>
    /\ net_deployment_results = <<>>
    /\ deploy_return = None
    /\ exit_code = -1

\* sys.exit(code)
Exit(code) ==
    /\ exit_code' = code
    /\ cpc' = "exit"

\* open() raised FileNotFoundError or json.load raised JSONDecodeError
MainLoadFailed ==
    /\ CliFrame
    /\ cpc = "main"
    /\ args.file # "ok"
    /\ Exit(1)
    /\ UNCHANGED <<netVars, vmxVars, program, args, config, apiCalls,
                   net_deployment_results, deploy_return>>

\* the loop over required_fields found a field that is not in config
MainValidationFailed ==
    /\ CliFrame
    /\ cpc = "main"
    /\ args.file = "ok"
    /\ ~(RequiredFields(program) \subseteq config.keys)
    /\ Exit(1)
    /\ UNCHANGED <<netVars, vmxVars, program, args, config, apiCalls,
                   net_deployment_results, deploy_return>>

\* the configuration passed main()'s validation
Validated ==
    /\ cpc = "main"
    /\ args.file = "ok"
    /\ RequiredFields(program) \subseteq config.keys

\* scrypt.py --dry-run: main() returns after the validation
MainDryRun ==
    /\ CliFrame
    /\ program = "scrypt"
    /\ Validated
    /\ args.dry_run
    /\ Exit(0)
    /\ UNCHANGED <<netVars, vmxVars, program, args, config, apiCalls,
                   net_deployment_results, deploy_return>>

\* self.network_id after the constructor: config.get('network_id')
ConfiguredNetwork(keys) ==
    IF "network_id" \in keys THEN "N_configured" ELSE ""

\* a check that takes every 2xx status for a created network
CreateSucceeded2xx(status) == status \in {200, 201}

\* `if response.status_code == 201:` of create_network
CreateSucceeded(status) == status = 201

\* ---- meraki_network24JULY.py ----

\* MerakiNetworkManager(config) and the entry of deploy(): the network is
\* created when the configuration has no network_id
NetMainDeploy ==
    /\ CliFrame
    /\ program = "network24"
    /\ Validated
    /\ network_id' = ConfiguredNetwork(config.keys)
    /\ cpc' = IF "network_id" \in config.keys THEN "bind_template"
              ELSE "create_network"
    /\ UNCHANGED <<netVars, meraki, cloud, created, granted, deployment_results,
                   failure, vstep, vattempt, vmxPoll, returned, vpc, program, args, config,
                   apiCalls, net_deployment_results, deploy_return, exit_code>>

\* a deploy that creates the network and does not record it
DeployCreateNetworkUnrecorded(status) ==
    /\ CliFrame
    /\ program = "network24"
    /\ cpc = "create_network"
    /\ apiCalls' = Append(apiCalls, ApiCall("create_network", status))
    /\ IF CreateSucceeded(status)
       THEN /\ cpc' = "bind_template"
            /\ UNCHANGED <<deploy_return, exit_code>>
       ELSE /\ deploy_return' = None
            /\ Exit(1)
    /\ UNCHANGED <<netVars, vmxVars, program, args, config,
                   net_deployment_results>>

\* create_network: 201 yields the network record, anything else (-1: the
\* request raised) makes deploy return None and main exit 1
DeployCreateNetwork(status) ==
    /\ CliFrame
    /\ program = "network24"
    /\ cpc = "create_network"
    /\ apiCalls' = Append(apiCalls, ApiCall("create_network", status))
    /\ IF CreateSucceeded(status)
       THEN /\ network_id' = "N_created"
            /\ net_deployment_results' = ("network" :> [id |-> "N_created"])
            /\ cpc' = "bind_template"
            /\ UNCHANGED <<deploy_return, exit_code>>
       ELSE /\ deploy_return' = None
            /\ Exit(1)
            /\ UNCHANGED <<network_id, net_deployment_results>>
    /\ UNCHANGED <<netVars, meraki, cloud, created, granted, deployment_results,
                   failure, vstep, vattempt, vmxPoll, returned, vpc, program, args, config>>

\* add_devices_to_network(serials) is entered
AddDevicesEntered(serials) ==
    /\ device_serials' = serials
    /\ npc' = IF serials = <<>> THEN "inventory" ELSE "claim"
    /\ UNCHANGED <<batch_start, claimCalls, claimed_devices, serial_numbers,
                   attempt, pollLog, verifyExit, lastPoll, netResult>>

\* POST /networks/{self.network_id}/bind
BindCall(status) == [op |-> "bind", status |-> status, network |-> network_id]

\* a bind_template that takes the template's network for its own
DeployBindTemplateRebinds(status) ==
    /\ CliFrame
    /\ program = "network24"
    /\ cpc = "bind_template"
    /\ apiCalls' = Append(apiCalls, BindCall(status))
    /\ network_id' = IF status = 200 THEN "N_template" ELSE network_id
    /\ cpc' = "add_devices"
    /\ AddDevicesEntered(config.device_serials)
    /\ UNCHANGED <<meraki, cloud, created, granted, deployment_results,
                   failure, vstep, vattempt, vmxPoll, returned, vpc, program,
                   args, config, net_deployment_results, deploy_return,
                   exit_code>>

\* a deploy that gives up when the template was not bound
DeployBindTemplateStrict(status) ==
    /\ CliFrame
    /\ program = "network24"
    /\ cpc = "bind_template"
    /\ apiCalls' = Append(apiCalls, BindCall(status))
    /\ IF status = 200
       THEN /\ cpc' = "add_devices"
            /\ AddDevicesEntered(config.device_serials)
            /\ UNCHANGED <<deploy_return, exit_code>>
       ELSE /\ deploy_return' = None
            /\ Exit(1)
            /\ UNCHANGED netVars
    /\ UNCHANGED <<vmxVars, program, args, config, net_deployment_results>>

\* bind_template: whatever the call ends with, deploy goes on to step 3,
\* add_devices_to_network(config.get('device_serials'))
DeployBindTemplate(status) ==
    /\ CliFrame
    /\ program = "network24"
    /\ cpc = "bind_template"
    /\ apiCalls' = Append(apiCalls, BindCall(status))
    /\ cpc' = "add_devices"
    /\ AddDevicesEntered(config.device_serials)
    /\ UNCHANGED <<vmxVars, program, args, config, net_deployment_results,
                   deploy_return, exit_code>>

\* a deploy that takes the claimed serials for verified devices
DeployDevicesTrustClaim(result, claimed) ==
    [i \in 1..Len(claimed) |-> [serial |-> claimed[i], connectionStatus |-> "None"]]

\* devices = self.add_devices_to_network(...): the list verify_devices
\* returned, nothing when it returned None
DeployDevices(result, claimed) == IF result.none THEN <<>> ELSE result.val

\* a deploy that undoes its work when verification timed out: it deletes the
\* network and returns None
DeployReturnWithRollback ==
    /\ CliFrame
    /\ program = "network24"
    /\ cpc = "add_devices"
    /\ npc = "done"
    /\ IF verifyExit = "timeout"
       THEN /\ apiCalls' = Append(apiCalls, ApiCall("delete_network", 204))
            /\ deploy_return' = None
            /\ Exit(1)
            /\ UNCHANGED net_deployment_results
       ELSE /\ net_deployment_results' =
                  (IF ~netResult.none
                   THEN net_deployment_results @@ ("devices" :> netResult.val)
                   ELSE net_deployment_results)
            /\ deploy_return' = Some(net_deployment_results')
            /\ Exit(IF DOMAIN net_deployment_results' # {} THEN 0 ELSE 1)
            /\ UNCHANGED apiCalls
    /\ UNCHANGED <<netVars, vmxVars, program, args, config>>

\* a main() that exits 0 only when deploy recorded devices
DeployReturnDevicesRequired ==
    LET devices == DeployDevices(netResult, claimed_devices)
        results == IF devices # <<>>
                   THEN net_deployment_results @@ ("devices" :> devices)
                   ELSE net_deployment_results
    IN /\ CliFrame
       /\ program = "network24"
       /\ cpc = "add_devices"
       /\ npc = "done"
       /\ net_deployment_results' = results
       /\ deploy_return' = Some(results)
       /\ Exit(IF "devices" \in DOMAIN results THEN 0 ELSE 1)
       /\ UNCHANGED <<netVars, vmxVars, program, args, config, apiCalls>>

\* add_devices_to_network has returned: deploy records the devices when there
\* are any and returns deployment_results; main exits 0 when it is not empty
DeployReturn ==
    LET devices == DeployDevices(netResult, claimed_devices)
        results == IF devices # <<>>
                   THEN net_deployment_results @@ ("devices" :> devices)
                   ELSE net_deployment_results
    IN /\ CliFrame
       /\ program = "network24"
       /\ cpc = "add_devices"
       /\ npc = "done"
       /\ net_deployment_results' = results
       /\ deploy_return' = Some(results)
       /\ Exit(IF DOMAIN results # {} THEN 0 ELSE 1)
       /\ UNCHANGED <<netVars, vmxVars, program, args, config, apiCalls>>

\* add_devices_to_network raises something other than a RequestException (a
\* device record of the inventory or of the device list without the key read
\* from it): deploy's `except Exception` returns None and main exits 1
DeployRaises ==
    /\ CliFrame
    /\ program = "network24"
    /\ cpc = "add_devices"
    /\ npc \in {"inventory", "verify"}
    /\ npc' = "raised"
    /\ deploy_return' = None
    /\ Exit(1)
    /\ UNCHANGED <<device_serials, batch_start, claimCalls, claimed_devices,
                   serial_numbers, attempt, pollLog, verifyExit, lastPoll,
                   netResult, vmxVars, program, args, config, apiCalls,
                   net_deployment_results>>

\* ---- workinglocal/meraki_network.py ----

\* the constructor's validate_api_access answered 200: deploy() is entered
LocalConstructOk ==
    /\ CliFrame
    /\ program = "network_local"
    /\ Validated
    /\ apiCalls' = Append(apiCalls, ApiCall("get_organization", 200))
    /\ network_id' = ConfiguredNetwork(config.keys)
    /\ cpc' = IF "network_id" \in config.keys THEN "templates"
              ELSE "create_network"
    /\ UNCHANGED <<netVars, meraki, cloud, created, granted, deployment_results,
                   failure, vstep, vattempt, vmxPoll, returned, vpc, program, args, config,
                   net_deployment_results, deploy_return, exit_code>>

\* validate_api_access raised (another status, or the request failed): main's
\* handler exits 1
LocalConstructFailed(status) ==
    /\ CliFrame
    /\ program = "network_local"
    /\ Validated
    /\ status # 200
    /\ apiCalls' = Append(apiCalls, ApiCall("get_organization", status))
    /\ Exit(1)
    /\ UNCHANGED <<netVars, vmxVars, program, args, config,
                   net_deployment_results, deploy_return>>

LocalCreateNetwork(status) ==
    /\ CliFrame
    /\ program = "network_local"
    /\ cpc = "create_network"
    /\ apiCalls' = Append(apiCalls, ApiCall("create_network", status))
    /\ IF CreateSucceeded(status)
       THEN /\ network_id' = "N_created"
            /\ net_deployment_results' = ("network" :> [id |-> "N_created"])
            /\ cpc' = "templates"
            /\ UNCHANGED <<deploy_return, exit_code>>
       ELSE /\ deploy_return' = None
            /\ Exit(1)
            /\ UNCHANGED <<network_id, net_deployment_results>>
    /\ UNCHANGED <<netVars, meraki, cloud, created, granted, deployment_results,
                   failure, vstep, vattempt, vmxPoll, returned, vpc, program, args, config>>

\* bound of the model: length of the template list
MaxTemplates == 2

\* the default of bind_template's parameter template_name: '1156'
template_name == <<49, 49, 53, 54>>

\* the configuration templates of the organization: two named '1156' and one
\* named '11560'
Templates ==
    {[id |-> "L_1", name |-> <<49, 49, 53, 54>>],
     [id |-> "L_2", name |-> <<49, 49, 53, 54>>],
     [id |-> "L_3", name |-> <<49, 49, 53, 54, 48>>]}

\* the template lists the remote may return: no template twice
TemplateLists ==
    {l \in UNION {[1..n -> Templates] : n \in 0..MaxTemplates} :
        \A i, j \in 1..Len(l) : i # j => l[i] # l[j]}

\* a lookup that takes the first template whose name begins with the name
FindTemplatePrefix(templates, name) ==
    LET hits == {i \in 1..Len(templates) : StartsWith(templates[i].name, name)}
    IN IF hits = {} THEN 0 ELSE CHOOSE i \in hits : \A j \in hits : i <= j

\* the loop of bind_template: position of the first template whose name is
\* `name`, 0 when the loop ends without a break
FindTemplate(templates, name) ==
    LET hits == {i \in 1..Len(templates) : templates[i].name = name}
    IN IF hits = {} THEN 0 ELSE CHOOSE i \in hits : \A j \in hits : i <= j

\* bind_template: the list call returned 200 with `templates`; without a
\* template of the name bind_template returns False ("returns" is the value
\* the method returns after this call, "none" when it goes on)
LocalTemplatesOk(templates) ==
    LET hit == FindTemplate(templates, template_name)
    IN /\ CliFrame
       /\ program = "network_local"
       /\ cpc = "templates"
       /\ apiCalls' = Append(apiCalls,
             [op |-> "get_config_templates", status |-> 200,
              templates |-> templates,
              returns |-> IF hit = 0 THEN "False" ELSE "none"])
       /\ cpc' = IF hit # 0 THEN "bind_template" ELSE "inventory"
       /\ UNCHANGED <<netVars, vmxVars, program, args, config,
                      net_deployment_results, deploy_return, exit_code>>

\* the list call returned another status, or the request raised (-1):
\* bind_template returns False
LocalTemplatesFailed(status) ==
    /\ CliFrame
    /\ program = "network_local"
    /\ cpc = "templates"
    /\ status # 200
    /\ apiCalls' = Append(apiCalls,
          [op |-> "get_config_templates", status |-> status,
           templates |-> <<>>, returns |-> "False"])
    /\ cpc' = "inventory"
    /\ UNCHANGED <<netVars, vmxVars, program, args, config,
                   net_deployment_results, deploy_return, exit_code>>

\* the bind call for the template found: True for 200, False for any other
\* status and for a request that raised (-1)
LocalBindTemplate(status) ==
    LET templates == apiCalls[Len(apiCalls)].templates
    IN /\ CliFrame
       /\ program = "network_local"
       /\ cpc = "bind_template"
       /\ apiCalls' = Append(apiCalls,
             [op |-> "bind", status |-> status, network |-> network_id,
              configTemplateId |->
                 templates[FindTemplate(templates, template_name)].id,
              autoBind |-> FALSE,
              returns |-> IF status = 200 THEN "True" ELSE "False"])
       /\ cpc' = "inventory"
       /\ UNCHANGED <<netVars, vmxVars, program, args, config,
                      net_deployment_results, deploy_return, exit_code>>

\* attempts of get_organization_inventory made so far
InventoryAttempts ==
    Len(SelectSeq(apiCalls, LAMBDA c : c.op = "get_inventory"))

\* one attempt of get_organization_inventory found available devices: deploy
\* calls self.add_devices_to_network, which this class does not define; the
\* AttributeError reaches deploy's handler, deploy returns None, main exits 1
LocalInventoryAvailable ==
    /\ CliFrame
    /\ program = "network_local"
    /\ cpc = "inventory"
    /\ apiCalls' = Append(apiCalls, ApiCall("get_inventory", "available"))
    /\ deploy_return' = None
    /\ Exit(1)
    /\ UNCHANGED <<netVars, vmxVars, program, args, config,
                   net_deployment_results>>

\* one attempt that found nothing ("none": both lists came back, no device is
\* available; "failed": one of the lists was refused; "exception"): the next
\* attempt follows, and after the last one deploy returns its results
LocalInventoryNothing(outcome) ==
    /\ CliFrame
    /\ program = "network_local"
    /\ cpc = "inventory"
    /\ outcome \in {"none", "failed", "exception"}
    /\ apiCalls' = Append(apiCalls, ApiCall("get_inventory", outcome))
    /\ IF InventoryAttempts + 1 < max_retries
       THEN UNCHANGED <<cpc, deploy_return, exit_code>>
       ELSE /\ deploy_return' = Some(net_deployment_results)
            /\ Exit(IF DOMAIN net_deployment_results # {} THEN 0 ELSE 1)
    /\ UNCHANGED <<netVars, vmxVars, program, args, config,
                   net_deployment_results>>

\* ---- meraki_networkback23JULY.py ----

\* the keys of the configuration that deploy of this program looks at,
\* besides the two required ones
Back23Keys == {"network_id", "device_serials", "wan_config"}

\* main() is started on a configuration file that is missing, is no JSON,
\* or holds some of the keys
Back23Init ==
    /\ program = "network_back23"
    /\ \E f \in {"ok", "missing", "invalid"} :
          args = [file |-> f, dry_run |-> FALSE]
    /\ \E K \in SUBSET (Back23Keys \cup RequiredFields(program)),
          n \in 0..MaxConfigSerials :
          /\ args.file # "ok" => K = {}
          /\ n > 0 <=> "device_serials" \in K
          /\ config = [keys |-> K, device_serials |-> SerialList(n)]
    /\ cpc = "main"
    /\ apiCalls = <<>>
    /\ net_deployment_results = <<>>
    /\ deploy_return = None
    /\ exit_code = -1

\* the step of deploy that follows the creation step
Back23AfterCreate ==
    IF "device_serials" \in config.keys THEN "add_devices"
    ELSE IF "wan_config" \in config.keys THEN "wan_settings"
    ELSE "return"

\* the step of deploy that follows the device step
Back23AfterDevices ==
    IF "wan_config" \in config.keys THEN "wan_settings" ELSE "return"

Back23Frame ==
    /\ CliFrame
    /\ UNCHANGED <<netVars, meraki, cloud, created, granted,
                   deployment_results, failure, vstep, vattempt, vmxPoll,
                   returned, vpc, program, args, config,
                   net_deployment_results>>

\* deploy returns None (a step failed, or its handler caught an exception)
\* and main exits 1
Back23ReturnsNone ==
    /\ deploy_return' = None
    /\ Exit(1)

\* MerakiNetworkManager(config) and the entry of deploy()
Back23MainDeploy ==
    /\ Back23Frame
    /\ program = "network_back23"
    /\ Validated
    /\ network_id' = ConfiguredNetwork(config.keys)
    /\ cpc' = IF "network_id" \in config.keys THEN Back23AfterCreate
              ELSE "create_network"
    /\ UNCHANGED <<apiCalls, deploy_return, exit_code>>

\* step 1: create_network, None unless answered 201
Back23CreateNetwork(status) ==
    /\ Back23Frame
    /\ program = "network_back23"
    /\ cpc = "create_network"
    /\ apiCalls' = Append(apiCalls, ApiCall("create_network", status))
    /\ IF CreateSucceeded(status)
       THEN /\ network_id' = "N_created"
            /\ cpc' = Back23AfterCreate
            /\ UNCHANGED <<deploy_return, exit_code>>
       ELSE /\ Back23ReturnsNone
            /\ UNCHANGED network_id

\* step 2: add_devices, one claim call and, after a 200, verify_devices; a
\* claim not answered 200 or a verification without devices ends deploy
Back23AddDevices(status, verified) ==
    /\ Back23Frame
    /\ program = "network_back23"
    /\ cpc = "add_devices"
    /\ verified => status = 200
    /\ apiCalls' = Append(apiCalls, ApiCall("claim", status))
    /\ IF verified
       THEN /\ cpc' = Back23AfterDevices
            /\ UNCHANGED <<deploy_return, exit_code>>
       ELSE Back23ReturnsNone
    /\ UNCHANGED network_id

\* step 3: configure_wan_settings; False (not 200, or the request raised)
\* makes deploy return None; after True the assignment to deployment_results,
\* a name deploy never binds, raises NameError and the handler returns None
Back23ConfigureWan(status) ==
    /\ Back23Frame
    /\ program = "network_back23"
    /\ cpc = "wan_settings"
    /\ apiCalls' = Append(apiCalls, ApiCall("uplink_settings", status))
    /\ Back23ReturnsNone
    /\ UNCHANGED network_id

\* `return deployment_results`: the name is not bound, NameError, the handler
\* returns None
Back23Return ==
    /\ Back23Frame
    /\ program = "network_back23"
    /\ cpc = "return"
    /\ Back23ReturnsNone
    /\ UNCHANGED <<network_id, apiCalls>>

Back23Next ==
    \/ MainLoadFailed
    \/ MainValidationFailed
    \/ Back23MainDeploy
    \/ \E status \in {201, 200, 400, -1} : Back23CreateNetwork(status)
    \/ \E status \in {200, 400, -1}, verified \in BOOLEAN :
          Back23AddDevices(status, verified)
    \/ \E status \in {200, 400, -1} : Back23ConfigureWan(status)
    \/ Back23Return

\* ---- scrypt.py ----

\* the step generate_vmx_authentication_token starts with
FirstTokenStepAlwaysCreates(keys) == "create_network"

FirstTokenStep(keys) ==
    IF "network_id" \in keys THEN "token" ELSE "create_network"

\* a main() that deploys whether or not --dry-run was given
VmxMainDeployAlways ==
    /\ CliFrame
    /\ program = "scrypt"
    /\ Validated
    /\ vpc = "idle"
    /\ network_id' = ConfiguredNetwork(config.keys)
    /\ vpc' = FirstTokenStep(config.keys)
    /\ cpc' = "deploy"
    /\ UNCHANGED <<netVars, meraki, cloud, created, granted, deployment_results,
                   failure, vstep, vattempt, vmxPoll, returned, program, args,
                   config,
                   apiCalls, net_deployment_results, deploy_return, exit_code>>

\* MerakiVMXDeployer(config) and the entry of deploy()
VmxMainDeploy ==
    /\ CliFrame
    /\ program = "scrypt"
    /\ Validated
    /\ ~args.dry_run
    /\ vpc = "idle"
    /\ network_id' = ConfiguredNetwork(config.keys)
    /\ vpc' = FirstTokenStep(config.keys)
    /\ cpc' = "deploy"
    /\ UNCHANGED <<netVars, meraki, cloud, created, granted, deployment_results,
                   failure, vstep, vattempt, vmxPoll, returned, program, args,
                   config,
                   apiCalls, net_deployment_results, deploy_return, exit_code>>

\* boto3 found no credentials while the clients were made: sys.exit(1)
VmxMainNoCredentials ==
    /\ CliFrame
    /\ program = "scrypt"
    /\ Validated
    /\ ~args.dry_run
    /\ Exit(1)
    /\ UNCHANGED <<netVars, vmxVars, program, args, config, apiCalls,
                   net_deployment_results, deploy_return>>

\* deploy() has returned: main exits 0 on a result, 1 on None
VmxMainExit ==
    /\ CliFrame
    /\ program = "scrypt"
    /\ cpc = "deploy"
    /\ vpc = "done"
    /\ Exit(IF Truthy(returned) THEN 0 ELSE 1)
    /\ UNCHANGED <<netVars, vmxVars, program, args, config, apiCalls,
                   net_deployment_results, deploy_return>>

MainNext ==
    \/ MainLoadFailed
    \/ MainValidationFailed

NetCliNext ==
    \/ NetMainDeploy
    \/ \E status \in {201, 200, 400, -1} : DeployCreateNetwork(status)
    \/ \E status \in {200, 400, -1} : DeployBindTemplate(status)
    \/ DeployRaises
    \/ DeployReturn

LocalCliNext ==
    \/ LocalConstructOk
    \/ \E status \in {401, -1} : LocalConstructFailed(status)
    \/ \E status \in {201, 200, 400, -1} : LocalCreateNetwork(status)
    \/ \E templates \in TemplateLists : LocalTemplatesOk(templates)
    \/ \E status \in {404, -1} : LocalTemplatesFailed(status)
    \/ \E status \in {200, 400, -1} : LocalBindTemplate(status)
    \/ LocalInventoryAvailable
    \/ \E outcome \in {"none", "failed", "exception"} :
          LocalInventoryNothing(outcome)

VmxCliNext ==
    \/ MainDryRun
    \/ VmxMainDeploy
    \/ VmxMainNoCredentials
    \/ VmxMainExit

(***************************************************************************)
(* Device relocation entry point: main() of workinglocal/device_move.py    *)
(* with DeviceMover.get_device_details                                     *)
(***************************************************************************)

\* bound of the model: length of the inventory list
MaxInventoryList == 2

\* "AA:01" and "Q2AA": a source_device given as a MAC and one given as a serial
SourceMac == <<65, 65, 58, 48, 49>>
SourceQ2AA == <<81, 50, 65, 65>>
SourceDevices == {SourceMac, SourceQ2AA}

\* the devices of the organization's inventory: two with the same MAC
\* written in different case, and one that matches nothing
InventoryDevices ==
    {[serial |-> <<81, 50, 65, 65>>, mac |-> <<97, 97, 58, 48, 49>>, networkId |-> 1],
     [serial |-> <<81, 50, 66, 66>>, mac |-> <<65, 65, 58, 48, 49>>, networkId |-> 0],
     [serial |-> <<81, 50, 67, 67>>, mac |-> <<99, 99, 58, 48, 51>>, networkId |-> 2]}

\* the inventory lists the remote may return: no device twice
InventoryLists ==
    {l \in UNION {[1..n -> InventoryDevices] : n \in 0..MaxInventoryList} :
        \A i, j \in 1..Len(l) : i # j => l[i] # l[j]}

\* str.replace(':', '')
StripColons(str) == SelectSeq(str, LAMBDA c : c # 58)

\* the condition of the generator in get_device_details
SourceMatches(d, source) ==
    LET mac_clean == LowerStr(StripColons(source))
    IN \/ StripColons(LowerStr(d.mac)) = mac_clean
       \/ LowerStr(d.serial) = mac_clean

\* a lookup that keeps the last device that matches
FindSourceLast(devices, source) ==
    LET hits == {i \in 1..Len(devices) : SourceMatches(devices[i], source)}
    IN IF hits = {} THEN 0 ELSE CHOOSE i \in hits : \A j \in hits : i >= j

\* next(..., None): position of the first device that matches, 0 for None
FindSource(devices, source) ==
    LET hits == {i \in 1..Len(devices) : SourceMatches(devices[i], source)}
    IN IF hits = {} THEN 0 ELSE CHOOSE i \in hits : \A j \in hits : i <= j

\* GET /organizations/{org_id}/inventory/devices
InventoryCall == [op |-> "get_inventory_devices", network |-> 0, serials |-> <<>>]

\* the relocation entry point touches nothing of the other workflows
RelocFrame ==
    UNCHANGED <<netVars, vmxVars, handlerVars, transportVars, concVars, orchestration, args,
                config, apiCalls, net_deployment_results, deploy_return>>

\* main() has loaded its configuration and constructed the DeviceMover:
\* source_serial is the lower-cased source_device
RelocInit ==
    /\ program = "device_move"
    /\ args = [file |-> "ok", dry_run |-> FALSE]
    /\ config = [keys |-> {}, device_serials |-> <<>>]
    /\ cpc = "relocate"
    /\ apiCalls = <<>>
    /\ net_deployment_results = <<>>
    /\ deploy_return = None
    /\ exit_code = -1
    /\ \E src \in SourceDevices : source_serial = LowerStr(src)
    /\ inventory = <<>>
    /\ mpc = "lookup_source"
    /\ networks = <<>>
    /\ target_network \in TargetNames
    /\ device = [serial |-> <<>>, mac |-> <<>>, networkId |-> 0]
    /\ target_network_id = 0
    /\ moveCalls = <<>>
    /\ detachOutcome = "none"
    /\ moveResult = "none"

\* get_device_details: the inventory call returned 200 with `devices`; main
\* goes on to the target lookup with the first match and exits 1 without one
SourceLookupOk(devices) ==
    LET hit == FindSource(devices, source_serial)
    IN /\ RelocFrame
       /\ mpc = "lookup_source"
       /\ inventory' = devices
       /\ moveCalls' = Append(moveCalls, Logged(InventoryCall, "200"))
       /\ IF hit # 0
          THEN /\ device' = devices[hit]
               /\ mpc' = "lookup_target"
          ELSE /\ UNCHANGED device
               /\ mpc' = "done"
       /\ UNCHANGED <<networks, target_network, target_network_id,
                      detachOutcome, moveResult, source_serial, program, cpc,
                      exit_code>>

\* get_device_details: the inventory call returned another status or raised
SourceLookupFailed(outcome) ==
    /\ RelocFrame
    /\ mpc = "lookup_source"
    /\ moveCalls' = Append(moveCalls, Logged(InventoryCall, outcome))
    /\ mpc' = "done"
    /\ UNCHANGED <<networks, target_network, device, target_network_id,
                   detachOutcome, moveResult, source_serial, inventory,
                   program, cpc, exit_code>>

\* main()'s exits: 0 when move_device returned True, 1 in every other case
RelocExit ==
    /\ RelocFrame
    /\ program = "device_move"
    /\ cpc = "relocate"
    /\ mpc = "done"
    /\ Exit(IF moveResult = "True" THEN 0 ELSE 1)
    /\ UNCHANGED <<moveVars, relocVars, program>>

RelocNext ==
    \/ \E devices \in InventoryLists : SourceLookupOk(devices)
    \/ \E outcome \in {"500", "exception"} : SourceLookupFailed(outcome)
    \/ RelocExit

(***************************************************************************)
(* The vMX deployment script: main() of deploy_meraki_vmx.py and the       *)
(* functions it calls                                                      *)
(***************************************************************************)

\* the same calls with the route made before there is a gateway
ScriptInfraOpsRouteFirst ==
    <<"create_vpc", "create_tags_vpc", "modify_vpc_attribute_hostnames",
      "create_subnet", "create_tags_subnet",
      "create_route_table", "create_tags_rtb", "create_route",
      "associate_route_table",
      "create_internet_gateway", "attach_internet_gateway", "create_tags_igw",
      "create_security_group">>

\* the cloud calls of main() up to the security group, in program order
ScriptInfraOps ==
    <<"create_vpc", "create_tags_vpc", "modify_vpc_attribute_hostnames",
      "create_subnet", "create_tags_subnet",
      "create_internet_gateway", "attach_internet_gateway", "create_tags_igw",
      "create_route_table", "create_tags_rtb", "create_route",
      "associate_route_table",
      "create_security_group">>

\* rules of create_security_group, in program order
script_rules ==
    <<[IpProtocol |-> "tcp", FromPort |-> 22, ToPort |-> 22],
      [IpProtocol |-> "tcp", FromPort |-> 443, ToPort |-> 443],
      [IpProtocol |-> "udp", FromPort |-> 500, ToPort |-> 500],
      [IpProtocol |-> "udp", FromPort |-> 4500, ToPort |-> 4500],
      [IpProtocol |-> "icmp", FromPort |-> -1, ToPort |-> -1],
      [IpProtocol |-> "50", FromPort |-> -1, ToPort |-> -1],
      [IpProtocol |-> "51", FromPort |-> -1, ToPort |-> -1]>>

\* get_latest_vmx_ami and deploy_vmx_instance
ScriptLaunchOps ==
    <<"describe_images", "run_instances", "wait_instance_running",
      "describe_instances">>

\* every cloud call of main(), in program order
ScriptOps ==
    ScriptInfraOps
       \o [i \in 1..Len(script_rules) |-> "authorize_security_group_ingress"]
       \o ScriptLaunchOps

\* the identifier a call hands back to its caller
CallYields(op) ==
    CASE op = "describe_images" -> {"ami_id"}
      [] op = "run_instances" -> {"instance_id"}
      [] OTHER -> InfraLocal(op)

\* the identifiers a call is given as parameters
CallUses(op) ==
    CASE op \in {"wait_vpc_available", "modify_vpc_attribute_hostnames",
                 "modify_vpc_attribute_support", "create_subnet",
                 "create_route_table", "create_security_group",
                 "create_tags_vpc"} -> {"vpc_id"}
      [] op = "attach_internet_gateway" -> {"internet_gateway_id", "vpc_id"}
      [] op = "create_tags_igw" -> {"internet_gateway_id"}
      [] op = "create_tags_subnet" -> {"subnet_id"}
      [] op = "create_tags_rtb" -> {"route_table_id"}
      [] op = "create_route" -> {"route_table_id", "internet_gateway_id"}
      [] op = "associate_route_table" -> {"route_table_id", "subnet_id"}
      [] op = "authorize_security_group_ingress" -> {"security_group_id"}
      [] op = "run_instances" -> {"ami_id", "security_group_id", "subnet_id"}
      [] op \in {"wait_instance_running", "describe_instances",
                 "terminate_instances"} -> {"instance_id"}
      [] OTHER -> {}

\* user_data of main(): the line that embeds the token, passed as plain text
ScriptUserData(token) ==
    [encoding |-> "plain",
     script |-> <<[line |-> "echo_auth_token", value |-> token]>>]

\* the script touches nothing of the other workflows
ScriptFrame ==
    UNCHANGED <<netVars, moveVars, relocVars, handlerVars, transportVars,
                concVars, orchestration, program, args, config, apiCalls,
                net_deployment_results, deploy_return>>

\* main() starts with its built-in configuration, which names no network
ScriptInit ==
    /\ program = "deploy_meraki_vmx"
    /\ args = [file |-> "ok", dry_run |-> FALSE]
    /\ config = [keys |-> {}, device_serials |-> <<>>]
    /\ cpc = "script"
    /\ apiCalls = <<>>
    /\ net_deployment_results = <<>>
    /\ deploy_return = None
    /\ exit_code = -1
    /\ vpc = "script_create_network"
    /\ network_id = ""
    /\ meraki = <<>>
    /\ cloud = <<>>
    /\ created = {}
    /\ granted = {}
    /\ deployment_results = <<>>
    /\ failure = "none"
    /\ vstep = 1
    /\ vattempt = 0
    /\ vmxPoll = NoVmxPoll
    /\ returned = None

\* the script ends: sys.exit(1), an exception nobody catches (1), or the end
\* of main() (0)
ScriptEnds(code) ==
    /\ vpc' = "done"
    /\ Exit(code)

\* generate_meraki_token: the create-network call returned a response
ScriptCreateNetwork(status) ==
    /\ ScriptFrame
    /\ cpc = "script"
    /\ vpc = "script_create_network"
    /\ meraki' = Append(meraki, MerakiCall("create_network", status))
    /\ IF status = 201
       THEN /\ network_id' = "N_created"
            /\ vpc' = "script_token"
            /\ UNCHANGED <<cpc, exit_code>>
       ELSE /\ ScriptEnds(1)
            /\ UNCHANGED network_id
    /\ UNCHANGED <<cloud, created, granted, deployment_results, failure, vstep,
                   vattempt, vmxPoll, returned>>

\* generate_meraki_token: the token call returned a response; main() keeps
\* the token of a 201 in its local `token`
ScriptTokenRequest(status, token) ==
    /\ ScriptFrame
    /\ cpc = "script"
    /\ vpc = "script_token"
    /\ meraki' = Append(meraki,
          [MerakiCall("authenticationToken", status) EXCEPT
              !.token = IF status = 201 THEN token ELSE ""])
    /\ IF status = 201
       THEN /\ deployment_results' =
                  ("auth_token" :> token) @@ ("network_id" :> network_id)
            /\ vpc' = "script_calls"
            /\ vstep' = 1
            /\ UNCHANGED <<cpc, exit_code>>
       ELSE /\ ScriptEnds(1)
            /\ UNCHANGED <<deployment_results, vstep>>
    /\ UNCHANGED <<network_id, cloud, created, granted, failure, vattempt,
                   vmxPoll, returned>>

\* either call of generate_meraki_token raised: nothing catches it
ScriptTokenException ==
    /\ ScriptFrame
    /\ cpc = "script"
    /\ vpc \in {"script_create_network", "script_token"}
    /\ meraki' = Append(meraki,
          MerakiCall(IF vpc = "script_token" THEN "authenticationToken" ELSE "create_network", -1))
    /\ ScriptEnds(1)
    /\ UNCHANGED <<network_id, cloud, created, granted, deployment_results,
                   failure, vstep, vattempt, vmxPoll, returned>>

\* the record of the call main() issues at position vstep
ScriptCall(outcome) ==
    IF ScriptOps[vstep] = "run_instances"
    THEN RunCall(outcome, IF outcome = "ok" THEN InstanceDict.instance_id ELSE "",
                 ScriptUserData(deployment_results["auth_token"]))
    ELSE CloudCall(ScriptOps[vstep], outcome)

\* the call at position vstep returned; after the last one main() ends
ScriptCallOk ==
    /\ ScriptFrame
    /\ cpc = "script"
    /\ vpc = "script_calls"
    /\ cloud' = Append(cloud, ScriptCall("ok"))
    /\ created' = created \cup CallYields(ScriptOps[vstep])
    /\ granted' =
          IF ScriptOps[vstep] = "authorize_security_group_ingress"
          THEN granted \cup {script_rules[vstep - Len(ScriptInfraOps)]}
          ELSE granted
    /\ IF vstep < Len(ScriptOps)
       THEN /\ vstep' = vstep + 1
            /\ UNCHANGED <<vpc, cpc, exit_code>>
       ELSE /\ ScriptEnds(0)
            /\ UNCHANGED vstep
    /\ UNCHANGED <<network_id, meraki, deployment_results, failure, vattempt,
                   vmxPoll, returned>>

\* an authorize call raised ClientError: a warning, the loop goes on
ScriptAuthorizeRefused ==
    /\ ScriptFrame
    /\ cpc = "script"
    /\ vpc = "script_calls"
    /\ ScriptOps[vstep] = "authorize_security_group_ingress"
    /\ cloud' = Append(cloud, ScriptCall("ClientError"))
    /\ vstep' = vstep + 1
    /\ UNCHANGED <<vpc, cpc, exit_code, network_id, meraki, created, granted,
                   deployment_results, failure, vattempt, vmxPoll, returned>>

\* a call raised an exception that nothing catches, or describe_images
\* found no image ("empty"): the script ends with 1
ScriptCallFails(outcome) ==
    /\ ScriptFrame
    /\ cpc = "script"
    /\ vpc = "script_calls"
    /\ outcome = "empty" => ScriptOps[vstep] = "describe_images"
    /\ outcome = "ClientError" => ScriptOps[vstep] # "authorize_security_group_ingress"
    /\ cloud' = Append(cloud, ScriptCall(outcome))
    /\ ScriptEnds(1)
    /\ UNCHANGED <<network_id, meraki, created, granted, deployment_results,
                   failure, vstep, vattempt, vmxPoll, returned>>

ScriptNext ==
    \/ \E status \in {201, 200, 400} : ScriptCreateNetwork(status)
    \/ \E status \in {201, 200, 400}, token \in Tokens : ScriptTokenRequest(status, token)
    \/ ScriptTokenException
    \/ ScriptCallOk
    \/ ScriptAuthorizeRefused
    \/ \E outcome \in {"ClientError", "other", "empty"} : ScriptCallFails(outcome)

(***************************************************************************)
(* One remote call of the network manager (workinglocal/meraki_network.py) *)
(* or of the device mover (workinglocal/device_move.py), at the level of   *)
(* its HTTP attempts: the retrying session and the timeout parameter       *)
(***************************************************************************)

\* Retry(total=5, ...) of both constructors
retry_total == 5

\* DeviceMover.request_timeout, in seconds
request_timeout == 30

\* status_forcelist of both constructors
status_forcelist == {408, 429, 500, 502, 503, 504}

\* Retry(...) is given no allowed_methods: the library's default holds, the
\* idempotent methods
allowed_methods == {"GET", "HEAD", "PUT", "DELETE", "OPTIONS", "TRACE"}

\* the call sites: the method, whether the call goes through self.session
\* (which carries the Retry adapter) or through the requests module, and the
\* timeout parameter, 0 when the call passes none
ManagerCallSites ==
    {[owner |-> "manager", op |-> "validate_api_access", method |-> "GET",
      via |-> "session", timeout |-> 0],
     [owner |-> "manager", op |-> "create_network", method |-> "POST",
      via |-> "requests", timeout |-> 0],
     [owner |-> "manager", op |-> "claim", method |-> "POST",
      via |-> "requests", timeout |-> 0],
     [owner |-> "manager", op |-> "device_statuses", method |-> "GET",
      via |-> "requests", timeout |-> 0],
     [owner |-> "manager", op |-> "device_list", method |-> "GET",
      via |-> "requests", timeout |-> 0],
     [owner |-> "manager", op |-> "inventory", method |-> "GET",
      via |-> "requests", timeout |-> 0],
     [owner |-> "manager", op |-> "template_list", method |-> "GET",
      via |-> "session", timeout |-> 0],
     [owner |-> "manager", op |-> "bind", method |-> "POST",
      via |-> "session", timeout |-> 0]}

MoverCallSites ==
    {[owner |-> "mover", op |-> "inventory", method |-> "GET",
      via |-> "session", timeout |-> request_timeout],
     [owner |-> "mover", op |-> "list_networks", method |-> "GET",
      via |-> "session", timeout |-> request_timeout],
     [owner |-> "mover", op |-> "detach", method |-> "POST",
      via |-> "session", timeout |-> request_timeout],
     [owner |-> "mover", op |-> "claim", method |-> "POST",
      via |-> "session", timeout |-> request_timeout]}

CallSites == ManagerCallSites \cup MoverCallSites

NoRequest ==
    [owner |-> "none", op |-> "none", method |-> "none", via |-> "none",
     timeout |-> 0]

TransportIdle ==
    /\ request = NoRequest
    /\ attempts = <<>>
    /\ tpc = "idle"

\* a call is about to be sent
TransportInit ==
    /\ request \in CallSites
    /\ attempts = <<>>
    /\ tpc = "sending"

TransportFrame ==
    UNCHANGED <<netVars, moveVars, vmxVars, cliVars, relocVars, handlerVars,
                concVars, orchestration, request>>

\* the session has retries left for the call
RetriesLeft == request.via = "session" /\ Len(attempts) < retry_total

\* the Retry adapter re-sends after a response of this status
StatusRetried(status) ==
    /\ request.via = "session"
    /\ request.method \in allowed_methods
    /\ status \in status_forcelist

\* the remote answered: the response reaches the caller unless the adapter
\* re-sends; with the retries used up the adapter raises
SendResponse(status) ==
    /\ TransportFrame
    /\ tpc = "sending"
    /\ attempts' = Append(attempts, [kind |-> "response", status |-> status])
    /\ tpc' = IF ~StatusRetried(status) THEN "returned"
              ELSE IF RetriesLeft THEN "sending"
              ELSE "raised"

\* the connection failed: the session's adapter re-sends while it has
\* retries, a call through the requests module raises at once
SendConnectionError ==
    /\ TransportFrame
    /\ tpc = "sending"
    /\ attempts' = Append(attempts, [kind |-> "connection_error", status |-> 0])
    /\ tpc' = IF RetriesLeft THEN "sending" ELSE "raised"

\* the remote accepts the request and never answers: a call with a timeout
\* gets a read timeout (re-sent by the adapter for an idempotent method), a
\* call without one waits for ever
SendNoAnswer ==
    /\ TransportFrame
    /\ tpc = "sending"
    /\ IF request.timeout = 0
       THEN /\ attempts' = Append(attempts, [kind |-> "no_answer", status |-> 0])
            /\ tpc' = "blocked"
       ELSE /\ attempts' = Append(attempts, [kind |-> "Timeout", status |-> 0])
            /\ tpc' = IF RetriesLeft /\ request.method \in allowed_methods
                      THEN "sending"
                      ELSE "raised"

TransportNext ==
    \/ \E status \in {200, 404, 429, 503} : SendResponse(status)
    \/ SendConnectionError
    \/ SendNoAnswer

(***************************************************************************)
(* Two deployment runs of workinglocal/meraki_network.py side by side:     *)
(* each is its own MerakiNetworkManager, the remote is what they share     *)
(***************************************************************************)

Runs == {1, 2}

RunNetworkNames == {"Branch-1", "Branch-2"}

\* a network the organization held before the runs
ExistingNetwork == [id |-> "N_configured", name |-> "Branch-1"]

\* the id the remote gives to the next network it creates
NewNetworkId == IF remote = <<>> \/ remote = <<ExistingNetwork>>
                THEN "N_created" ELSE "N_created_2"

\* a run before its constructor: config with the network name and, when
\* configured, a network_id
RunStart(name, configured) ==
    [pc |-> "construct",
     config |-> [network_name |-> name,
                 network_id |-> IF configured THEN "N_configured" ELSE ""],
     network_id |-> "",
     deployment_results |-> {},
     returned |-> "running",
     calls |-> <<>>]

NoRun ==
    [pc |-> "idle", config |-> [network_name |-> "", network_id |-> ""],
     network_id |-> "", deployment_results |-> {}, returned |-> "running",
     calls |-> <<>>]

RunsIdle ==
    /\ runs = [r \in Runs |-> NoRun]
    /\ remote = <<>>

RunsInit ==
    /\ \E n1 \in RunNetworkNames, n2 \in RunNetworkNames, c1 \in BOOLEAN, c2 \in BOOLEAN :
          runs = (1 :> RunStart(n1, c1)) @@ (2 :> RunStart(n2, c2))
    /\ remote \in {<<>>, <<ExistingNetwork>>}

RunsFrame ==
    UNCHANGED <<netVars, moveVars, vmxVars, cliVars, relocVars, handlerVars,
                transportVars, orchestration>>

\* the run's record of a call it made
DeployCall(op, status, arg) == [op |-> op, status |-> status, arg |-> arg]

\* a manager whose network_id is an attribute of the class: what one run
\* records, every run holds
RunStepShared(r, run, id) ==
    [q \in Runs |-> IF q = r THEN run ELSE [runs[q] EXCEPT !.network_id = id]]

\* what a step of run r leaves: its own record changed, the other untouched
RunStep(r, run, id) == [runs EXCEPT ![r] = run]

\* MerakiNetworkManager(config): network_id from the run's own config, then
\* validate_api_access, which raises when not answered 200
RunConstruct(r, status) ==
    LET run == runs[r]
        called == Append(run.calls, DeployCall("get_organization", status, ""))
    IN /\ RunsFrame
       /\ run.pc = "construct"
       /\ runs' = [runs EXCEPT ![r] =
              IF status = 200
              THEN [run EXCEPT !.network_id = run.config.network_id,
                               !.calls = called, !.pc = "deploy"]
              ELSE [run EXCEPT !.calls = called, !.pc = "done",
                               !.returned = "raised"]]
       /\ UNCHANGED remote

\* deploy with a configured network_id: no creation
RunConfigured(r) ==
    /\ RunsFrame
    /\ runs[r].pc = "deploy"
    /\ runs[r].network_id # ""
    /\ runs' = [runs EXCEPT ![r].pc = "bind_template"]
    /\ UNCHANGED remote

\* deploy without a network_id: create_network posts the run's name; the
\* remote creates on 201, whatever the names it holds
RunCreateNetwork(r, status) ==
    LET run == runs[r]
        name == run.config.network_name
        called == Append(run.calls, DeployCall("create_network", status, name))
    IN /\ RunsFrame
       /\ run.pc = "deploy"
       /\ run.network_id = ""
       /\ IF CreateSucceeded(status)
          THEN /\ remote' = Append(remote, [id |-> NewNetworkId, name |-> name])
               /\ runs' = RunStep(r, [run EXCEPT
                                        !.network_id = NewNetworkId,
                                        !.deployment_results = {"network"},
                                        !.calls = called,
                                        !.pc = "bind_template"],
                                  NewNetworkId)
          ELSE /\ runs' = [runs EXCEPT ![r] =
                              [run EXCEPT !.calls = called, !.pc = "done",
                                          !.returned = "None"]]
               /\ UNCHANGED remote

\* bind_template on the run's own network; its result does not end deploy
RunBindTemplate(r, status) ==
    LET run == runs[r]
    IN /\ RunsFrame
       /\ run.pc = "bind_template"
       /\ runs' = [runs EXCEPT ![r] =
              [run EXCEPT !.calls = Append(run.calls,
                                           DeployCall("bind", status, run.network_id)),
                          !.pc = "inventory"]]
       /\ UNCHANGED remote

\* the inventory and the device step: deploy returns its own results
RunDevices(r, devices) ==
    LET run == runs[r]
    IN /\ RunsFrame
       /\ run.pc = "inventory"
       /\ runs' = [runs EXCEPT ![r] =
              [run EXCEPT !.calls = Append(run.calls,
                                           DeployCall("get_inventory", 200, "")),
                          !.deployment_results =
                              IF devices THEN run.deployment_results \cup {"devices"}
                              ELSE run.deployment_results,
                          !.returned = "deployment_results",
                          !.pc = "done"]]
       /\ UNCHANGED remote

RunsNext ==
    \E r \in Runs :
       \/ \E status \in {200, 401} : RunConstruct(r, status)
       \/ RunConfigured(r)
       \/ \E status \in {201, 400, -1} : RunCreateNetwork(r, status)
       \/ \E status \in {200, 400} : RunBindTemplate(r, status)
       \/ \E devices \in BOOLEAN : RunDevices(r, devices)

(***************************************************************************)
(* Orchestration: main() and run_script of workinglocal/deploy_and_move.py *)
(***************************************************************************)

\* required_files of main(), in the order they are looked for
required_files == <<"config.json", "meraki_network.py", "device_move.py">>

\* how subprocess.run ends under check=True and timeout=300: the script
\* exited 0, exited with another code or was killed by a signal
\* (CalledProcessError), ran into the timeout (TimeoutExpired), or could not
\* be started (another exception, no return code: -1); with or without
\* captured output
ScriptOutcomes ==
    [kind : {"completed"}, returncode : {0}, stdout : BOOLEAN, stderr : BOOLEAN]
    \cup [kind : {"CalledProcessError"}, returncode : {1, 2, -9},
          stdout : BOOLEAN, stderr : BOOLEAN]
    \cup [kind : {"TimeoutExpired", "Exception"}, returncode : {-1},
          stdout : {FALSE}, stderr : {FALSE}]

\* a run_script that does not ask subprocess.run to check the exit code
RunScriptUnchecked(outcome) ==
    outcome.kind \in {"completed", "CalledProcessError"}

\* what run_script returns: True when subprocess.run returned, False from
\* each of its three handlers
RunScript(outcome) == outcome.kind = "completed"

OrchIdle ==
    orchestration = [pc |-> "idle", files |-> {}, scripts |-> <<>>,
                     exit_code |-> -1]

\* main() is started in a directory that holds some of the files
OrchInit ==
    \E F \in SUBSET Range(required_files) :
       orchestration = [pc |-> "main", files |-> F, scripts |-> <<>>,
                        exit_code |-> -1]

OrchFrame ==
    UNCHANGED <<netVars, moveVars, vmxVars, cliVars, relocVars, handlerVars,
                transportVars, concVars>>

\* the loop over required_files: the first one missing ends main with 1
OrchRequiredFiles ==
    /\ OrchFrame
    /\ orchestration.pc = "main"
    /\ orchestration' =
          IF Range(required_files) \subseteq orchestration.files
          THEN [orchestration EXCEPT !.pc = "meraki_network.py"]
          ELSE [orchestration EXCEPT !.pc = "exit", !.exit_code = 1]

\* step 1: run_script('meraki_network.py'); False ends main with 1
OrchCreateNetwork(outcome) ==
    /\ OrchFrame
    /\ orchestration.pc = "meraki_network.py"
    /\ orchestration' =
          [orchestration EXCEPT
             !.scripts = Append(@, [script |-> "meraki_network.py",
                                    outcome |-> outcome]),
             !.pc = IF RunScript(outcome) THEN "sleep" ELSE "exit",
             !.exit_code = IF RunScript(outcome) THEN @ ELSE 1]

\* time.sleep(30) between the two scripts
OrchWait ==
    /\ OrchFrame
    /\ orchestration.pc = "sleep"
    /\ orchestration' = [orchestration EXCEPT !.pc = "device_move.py"]

\* step 2: run_script('device_move.py'); main exits 0 on True and 1 on
\* False
OrchMoveDevice(outcome) ==
    /\ OrchFrame
    /\ orchestration.pc = "device_move.py"
    /\ orchestration' =
          [orchestration EXCEPT
             !.scripts = Append(@, [script |-> "device_move.py",
                                    outcome |-> outcome]),
             !.pc = "exit",
             !.exit_code = IF RunScript(outcome) THEN 0 ELSE 1]

OrchNext ==
    \/ OrchRequiredFiles
    \/ \E outcome \in ScriptOutcomes : OrchCreateNetwork(outcome)
    \/ OrchWait
    \/ \E outcome \in ScriptOutcomes : OrchMoveDevice(outcome)

(***************************************************************************)
(* Service handlers: lambda_handler of lambda_function.py and of           *)
(* lambda_handler.py                                                       *)
(***************************************************************************)

Handlers == {"lambda_function", "lambda_handler"}

\* the keys of the request body that carry a value
EventKeys == {"network_name", "source_device", "target_network", "move_device"}
\* the keys workinglocal/config.json may carry besides the credentials
FileKeys == {"network_name", "source_device", "target_network"}

\* what an invocation finds: config.json missing, no JSON or loaded; the
\* request body JSON or not; the network_name of config.json a string or not
Invocations ==
    [config_file : {"ok", "missing", "invalid"},
     body : {"json", "not_json"},
     name_type : {"str", "int"}]

\* lambda_handler.py: config.json overridden by the values of the body
EffectiveConfig == file_config \cup (event \cap FileKeys)

\* the handlers touch nothing of the other workflows
HandlerFrame ==
    UNCHANGED <<netVars, moveVars, vmxVars, cliVars, relocVars, transportVars,
                concVars, orchestration>>

HandlerInit ==
    /\ handler \in Handlers
    /\ hpc = "start"
    /\ event \in SUBSET EventKeys
    /\ file_config \in SUBSET FileKeys
    /\ handler = "lambda_function" => file_config = {}
    /\ invocation \in Invocations
    /\ handler = "lambda_function" =>
          invocation.config_file = "ok" /\ invocation.name_type = "str"
    /\ file_config # {} => invocation.config_file = "ok"
    /\ "network_name" \notin file_config => invocation.name_type = "str"
    /\ invocation.body # "json" => event = {}
    /\ hCalls = <<>>
    /\ response = 0
    /\ deployment_result = {}

\* return {'statusCode': code, ...}
Respond(code) ==
    /\ response' = code
    /\ hpc' = "done"

\* lambda_function.py starts with get_secret; a ClientError is raised again
\* and reaches the handler's `except Exception`
FnGetSecret(outcome) ==
    /\ HandlerFrame
    /\ handler = "lambda_function"
    /\ hpc = "start"
    /\ outcome \in {"ok", "ClientError"}
    /\ hCalls' = Append(hCalls, ApiCall("get_secret_value", outcome))
    /\ IF outcome = "ok" /\ invocation.body = "json"
       THEN hpc' = "construct" /\ UNCHANGED response
       ELSE Respond(500)
    /\ UNCHANGED <<handler, event, file_config, deployment_result, invocation>>

\* lambda_handler.py: open() raises FileNotFoundError or json.load raises
\* JSONDecodeError, each answered 500 by its except clause
HandlerConfigUnreadable ==
    /\ HandlerFrame
    /\ handler = "lambda_handler"
    /\ hpc = "start"
    /\ invocation.config_file # "ok"
    /\ Respond(500)
    /\ UNCHANGED <<handler, event, file_config, deployment_result, invocation, hCalls>>

\* lambda_handler.py: json.loads of the body raises JSONDecodeError, which
\* the except clause written for the configuration file answers with 500
HandlerBodyNotJson ==
    /\ HandlerFrame
    /\ handler = "lambda_handler"
    /\ hpc = "start"
    /\ invocation.config_file = "ok"
    /\ invocation.body = "not_json"
    /\ Respond(500)
    /\ UNCHANGED <<handler, event, file_config, deployment_result, invocation, hCalls>>

\* the configuration and the body were loaded
HandlerLoaded == invocation.config_file = "ok" /\ invocation.body = "json"

\* config.get('network_name') is a non-empty string: the body's value is
\* passed through str(), the file's value is taken as it is
NetworkNameValid ==
    \/ "network_name" \in event
    \/ "network_name" \in file_config /\ invocation.name_type = "str"

\* lambda_handler.py: with a network_name in the effective configuration the
\* manager is constructed
HandlerValidated ==
    /\ HandlerFrame
    /\ handler = "lambda_handler"
    /\ hpc = "start"
    /\ HandlerLoaded
    /\ NetworkNameValid
    /\ hpc' = "construct"
    /\ UNCHANGED <<handler, event, file_config, deployment_result, invocation, hCalls, response>>

\* lambda_handler.py: no network_name, answered 400
HandlerValidationFailed ==
    /\ HandlerFrame
    /\ handler = "lambda_handler"
    /\ hpc = "start"
    /\ HandlerLoaded
    /\ ~NetworkNameValid
    /\ Respond(400)
    /\ UNCHANGED <<handler, event, file_config, deployment_result, invocation, hCalls>>

\* MerakiNetworkManager(config): validate_api_access; a failure is raised and
\* answered 500
HandlerConstruct(status) ==
    /\ HandlerFrame
    /\ hpc = "construct"
    /\ hCalls' = Append(hCalls, ApiCall("get_organization", status))
    /\ IF status = 200
       THEN hpc' = "deploy" /\ UNCHANGED response
       ELSE Respond(500)
    /\ UNCHANGED <<handler, event, file_config, deployment_result, invocation>>

\* the device move is gone into after a deployment that returned a result
MoveRequested ==
    IF handler = "lambda_function"
    THEN "move_device" \in event
    ELSE {"source_device", "target_network"} \subseteq EffectiveConfig

\* DeviceMover(config) raises: in lambda_function.py the configuration has
\* the keys source_device and target_network with the values of the body,
\* None when the body has none
MoverConstructorRaises ==
    /\ handler = "lambda_function"
    /\ ~({"source_device", "target_network"} \subseteq event)

\* manager.deploy(): the network creation call and what deploy returned
\* (truthy only after a 201); then the entry of the device move
HandlerDeploy(status, truthy) ==
    /\ HandlerFrame
    /\ hpc = "deploy"
    /\ truthy => status = 201
    /\ hCalls' = Append(hCalls, ApiCall("create_network", status))
    /\ IF ~truthy THEN Respond(500)
       ELSE IF ~MoveRequested THEN Respond(200)
       ELSE IF MoverConstructorRaises THEN Respond(500)
       ELSE hpc' = "mover_source" /\ UNCHANGED response
    /\ deployment_result' = IF truthy /\ handler = "lambda_handler"
                            THEN {"network"} ELSE {}
    /\ UNCHANGED <<handler, event, file_config, invocation>>

\* lambda_handler.py: DeviceMover(config) raises (a source_device of the body
\* that is no string has no lower()); the handler of the move block logs it
\* and the answer is 200
HandlerMoverRaises ==
    /\ HandlerFrame
    /\ handler = "lambda_handler"
    /\ hpc = "mover_source"
    /\ "source_device" \in event
    /\ Respond(200)
    /\ UNCHANGED <<handler, event, file_config, deployment_result, invocation,
                   hCalls>>

\* a move block whose failure is answered 500
HandlerMoverMoveStrict(moved) ==
    /\ HandlerFrame
    /\ hpc = "mover_move"
    /\ hCalls' = Append(hCalls, ApiCall("move_device", moved))
    /\ Respond(IF moved THEN 200 ELSE 500)
    /\ deployment_result' = IF moved /\ handler = "lambda_handler"
                            THEN deployment_result \cup {"device_move"}
                            ELSE deployment_result
    /\ UNCHANGED <<handler, event, file_config, invocation>>

\* mover.get_device_details(): without a device the answer is 200
HandlerMoverSource(found) ==
    /\ HandlerFrame
    /\ hpc = "mover_source"
    /\ hCalls' = Append(hCalls, ApiCall("get_inventory_devices", found))
    /\ IF found THEN hpc' = "mover_target" /\ UNCHANGED response
       ELSE Respond(200)
    /\ UNCHANGED <<handler, event, file_config, deployment_result, invocation>>

\* mover.get_target_network_id(): without a network the answer is 200
HandlerMoverTarget(found) ==
    /\ HandlerFrame
    /\ hpc = "mover_target"
    /\ hCalls' = Append(hCalls, ApiCall("list_networks", found))
    /\ IF found THEN hpc' = "mover_move" /\ UNCHANGED response
       ELSE Respond(200)
    /\ UNCHANGED <<handler, event, file_config, deployment_result, invocation>>

\* mover.move_device(): a failed move is answered 500 by lambda_function.py
\* and 200 by lambda_handler.py
HandlerMoverMove(moved) ==
    /\ HandlerFrame
    /\ hpc = "mover_move"
    /\ hCalls' = Append(hCalls, ApiCall("move_device", moved))
    /\ Respond(IF moved \/ handler = "lambda_handler" THEN 200 ELSE 500)
    /\ deployment_result' = IF moved /\ handler = "lambda_handler"
                            THEN deployment_result \cup {"device_move"}
                            ELSE deployment_result
    /\ UNCHANGED <<handler, event, file_config, invocation>>

HandlerNext ==
    \/ \E outcome \in {"ok", "ClientError"} : FnGetSecret(outcome)
    \/ HandlerConfigUnreadable
    \/ HandlerBodyNotJson
    \/ HandlerValidated
    \/ HandlerValidationFailed
    \/ \E status \in {200, 401, -1} : HandlerConstruct(status)
    \/ \E status \in {201, 400, -1}, truthy \in BOOLEAN : HandlerDeploy(status, truthy)
    \/ HandlerMoverRaises
    \/ \E found \in BOOLEAN : HandlerMoverSource(found)
    \/ \E found \in BOOLEAN : HandlerMoverTarget(found)
    \/ \E moved \in BOOLEAN : HandlerMoverMove(moved)

(***************************************************************************)
(* Specifications: one workflow runs, the others stay idle                 *)
(***************************************************************************)
EntryIdle == CliIdle /\ RelocIdle /\ HandlerIdle /\ TransportIdle /\ RunsIdle
                     /\ OrchIdle

InitNet == NetInit /\ MoveIdle /\ VmxIdle /\ EntryIdle
InitMove == NetIdle /\ MoveInit /\ VmxIdle /\ EntryIdle
InitVmx == NetIdle /\ MoveIdle /\ VmxInit /\ EntryIdle

\* the three command-line programs, each from its main()
InitCli == NetIdle /\ MoveIdle /\ VmxIdle /\ CliInit(Programs)
                   /\ RelocIdle /\ HandlerIdle /\ TransportIdle /\ RunsIdle /\ OrchIdle
CliNext == MainNext \/ NetCliNext \/ NetNext \/ LocalCliNext
                    \/ VmxCliNext \/ VmxNext
SpecCli == InitCli /\ [][CliNext]_vars

\* device_move.py from its main()
InitRelocate == NetIdle /\ VmxIdle /\ HandlerIdle /\ TransportIdle /\ RunsIdle /\ OrchIdle
                /\ RelocInit
RelocateRun == RelocNext \/ MoveNext
SpecRelocate == InitRelocate /\ [][RelocateRun]_vars

\* the vMX deployment by either program: MerakiVMXDeployer.deploy of
\* scrypt.py, or the script deploy_meraki_vmx.py
InitVmxRuns ==
    \/ VmxInit /\ NetIdle /\ MoveIdle /\ EntryIdle
    \/ ScriptInit /\ NetIdle /\ MoveIdle /\ RelocIdle /\ HandlerIdle
                  /\ TransportIdle /\ RunsIdle /\ OrchIdle
VmxRunsNext == VmxNext \/ ScriptNext
SpecVmxRuns == InitVmxRuns /\ [][VmxRunsNext]_vars

\* the two service handlers
InitHandler == NetIdle /\ MoveIdle /\ VmxIdle /\ CliIdle /\ RelocIdle
                       /\ TransportIdle /\ RunsIdle /\ OrchIdle
                       /\ HandlerInit
SpecHandler == InitHandler /\ [][HandlerNext]_vars

\* meraki_network24JULY.py alone
InitNetCli == NetIdle /\ MoveIdle /\ VmxIdle /\ CliInit({"network24"})
                      /\ RelocIdle /\ HandlerIdle /\ TransportIdle /\ RunsIdle /\ OrchIdle
NetCliRun == MainNext \/ NetCliNext \/ NetNext
SpecNetCli == InitNetCli /\ [][NetCliRun]_vars

\* one remote call of the network manager or the device mover
InitTransport == NetIdle /\ MoveIdle /\ VmxIdle /\ CliIdle /\ RelocIdle
                         /\ HandlerIdle /\ RunsIdle /\ OrchIdle /\ TransportInit
SpecTransport == InitTransport /\ [][TransportNext]_vars

\* two runs of the network manager at once
InitRuns == NetIdle /\ MoveIdle /\ VmxIdle /\ CliIdle /\ RelocIdle
                    /\ HandlerIdle /\ TransportIdle /\ OrchIdle /\ RunsInit
SpecRuns == InitRuns /\ [][RunsNext]_vars

\* meraki_networkback23JULY.py from its main()
InitBack23 == NetIdle /\ MoveIdle /\ VmxIdle /\ RelocIdle /\ HandlerIdle
                      /\ TransportIdle /\ RunsIdle /\ OrchIdle /\ Back23Init
SpecBack23 == InitBack23 /\ [][Back23Next]_vars

\* deploy_and_move.py from its main()
InitOrch == NetIdle /\ MoveIdle /\ VmxIdle /\ CliIdle /\ RelocIdle
                    /\ HandlerIdle /\ TransportIdle /\ RunsIdle /\ OrchInit
SpecOrch == InitOrch /\ [][OrchNext]_vars

\* the two network programs, each from its main()
InitNetworks == NetIdle /\ MoveIdle /\ VmxIdle
                        /\ CliInit({"network24", "network_local"})
                        /\ RelocIdle /\ HandlerIdle /\ TransportIdle /\ RunsIdle /\ OrchIdle
NetworksRun == MainNext \/ NetCliNext \/ NetNext \/ LocalCliNext
SpecNetworks == InitNetworks /\ [][NetworksRun]_vars

SpecNet == InitNet /\ [][NetNext]_vars
SpecMove == InitMove /\ [][MoveNext]_vars
SpecVmx == InitVmx /\ [][VmxNext]_vars

\* the network manager runs on: a step that can be taken is taken
SpecNetLive == InitNet /\ [][NetNext]_vars /\ WF_vars(NetNext)

\* verify_vmx_deployment is entered: a deploy that had its network configured,
\* stored the token, built the infrastructure (one rule refused, the role
\* there already) and launched the instance
VerifyInit ==
    /\ vpc = "verify"
    /\ network_id = "N_configured"
    /\ \E token \in Tokens :
          /\ meraki = <<[MerakiCall("authenticationToken", 201)
                            EXCEPT !.token = token]>>
          /\ cloud = <<CloudCall("put_parameter", "ok")>>
                     \o [i \in 1..Len(InfraOps) |-> CloudCall(InfraOps[i], "ok")]
                     \o <<CloudCall("authorize_security_group_ingress", "ClientError"),
                          CloudCall("describe_images", "ok"),
                          CloudCall("create_role", "ClientError"),
                          RunCall("ok", "i-1", UserData(token, network_id)),
                          CloudCall("wait_instance_running", "ok"),
                          CloudCall("describe_instances", "ok")>>
          /\ deployment_results =
                [network_id |-> network_id,
                 auth_token |-> token,
                 infrastructure |->
                    [vpc_id |-> "vpc-1", subnet_id |-> "subnet-1",
                     security_group_id |-> "sg-1",
                     internet_gateway_id |-> "igw-1",
                     route_table_id |-> "rtb-1"],
                 instance |->
                    [instance_id |-> "i-1", public_ip |-> "198.51.100.7",
                     private_ip |-> "10.0.1.7", ami_id |-> "ami-1"]]
    /\ created = {"vpc_id", "subnet_id", "security_group_id",
                  "internet_gateway_id", "route_table_id"}
    /\ granted = {}
    /\ failure = "none"
    /\ vstep = 1
    /\ vattempt = 0
    /\ vmxPoll = NoVmxPoll
    /\ returned = None

\* the loop of verify_vmx_deployment and the return of deploy after it
VerifyNext ==
    \/ \E devices \in VmxDeviceLists : VmxPollFound(devices)
    \/ \E devices \in VmxDeviceLists : VmxPollEmpty(devices)
    \/ \E status \in {500, -1} : VmxPollFailed(status)
    \/ SummaryWritten
    \/ SummaryFailed

InitVerify == NetIdle /\ MoveIdle /\ EntryIdle /\ VerifyInit

\* the deployer runs on: a step that can be taken is taken
SpecVerify == InitVerify /\ [][VerifyNext]_vars /\ WF_vars(VerifyNext)

(***************************************************************************)
(* Properties of the network manager (checked under SpecNet)               *)
(***************************************************************************)

RECURSIVE Concat(_)
Concat(ss) == IF ss = <<>> THEN <<>> ELSE Head(ss) \o Concat(Tail(ss))

\* the requested serials a poll round's device list shows
Visible(round) == Range(round.devices) \cap Range(serial_numbers)
RoundBoth200(round) == round.status_code = 200 /\ round.devices_code = 200
RoundEmpty(round) == RoundBoth200(round) /\ Visible(round) = {}
RoundHit(round) == RoundBoth200(round) /\ Visible(round) # {}

\* C1: if rounds 1..K-1 return 200 without a requested serial and round K
\* returns 200 with one, exactly K rounds are performed and the matched
\* devices of round K are returned; while the rounds return 200 without a
\* requested serial verification goes on, and after 4 such rounds it ends
\* with the timeout outcome None.
C1_VerifyPollsUntilFirstMatch ==
    /\ \A K \in 1..4 :
          ( /\ Len(pollLog) >= K
            /\ \A j \in 1..(K - 1) : RoundEmpty(pollLog[j])
            /\ RoundHit(pollLog[K]) )
          => /\ Len(pollLog) = K
             /\ npc = "done"
             /\ verifyExit = "found"
             /\ ~netResult.none
             /\ {netResult.val[i].serial : i \in 1..Len(netResult.val)}
                   = Visible(pollLog[K])
    /\ (\A j \in 1..Len(pollLog) : RoundEmpty(pollLog[j]))
          => /\ Len(pollLog) <= 4
             /\ Len(pollLog) < 4 => npc # "done" \/ pollLog = <<>>
             /\ Len(pollLog) = 4 =>
                   npc = "done" /\ verifyExit = "timeout" /\ netResult = None

\* C1 witness: the third round is the first to show a requested serial
C1_Witness ==
    /\ Len(pollLog) = 3
    /\ RoundEmpty(pollLog[1])
    /\ RoundEmpty(pollLog[2])
    /\ RoundHit(pollLog[3])
    /\ verifyExit = "found"

\* the batch loop ran to its end: every claim call returned a response
LoopCompleted ==
    /\ npc \in {"verify", "done"}
    /\ claimCalls # <<>>
    /\ \A k \in 1..Len(claimCalls) : claimCalls[k].outcome # -1

BatchesOf(calls) == [k \in 1..Len(calls) |-> calls[k].serials]
OkBatches(calls) == BatchesOf(SelectSeq(calls, LAMBDA c : c.outcome = 200))

\* C2: when every claim call returns a response, ceil(N/10) calls are issued,
\* the batches are consecutive slices of 1 to 10 serials that make up the
\* list, and the claimed serials handed to verify_devices are those of the
\* batches that returned 200.
C2_BatchesPartitionAndClaimedIsUnionOfOk ==
    LoopCompleted =>
       /\ Len(claimCalls) = (Len(device_serials) + 9) \div 10
       /\ Concat(BatchesOf(claimCalls)) = device_serials
       /\ \A k \in 1..Len(claimCalls) :
             Len(claimCalls[k].serials) \in 1..10
       /\ claimed_devices = Concat(OkBatches(claimCalls))
       /\ IF claimed_devices # <<>>
          THEN serial_numbers = claimed_devices
          ELSE npc = "done" /\ pollLog = <<>> /\ netResult = None

\* C2 witness: three batches, the middle one rejected
C2_Witness ==
    /\ Len(claimCalls) = 3
    /\ claimCalls[1].outcome = 200
    /\ claimCalls[2].outcome = 400
    /\ claimCalls[3].outcome = 200
    /\ npc = "verify"
    /\ Len(serial_numbers) = Len(device_serials) - 10

\* C3: a failing batch (non-200 or request exception) does not abort the
\* remaining batches: once add_devices_to_network is past the loop every
\* batch has been issued and the serials of the batches that returned 200
\* have gone on to verification.
C3_FailedBatchDoesNotAbort ==
    (npc \in {"verify", "done"} /\ claimCalls # <<>>) =>
       /\ Len(claimCalls) = (Len(device_serials) + 9) \div 10
       /\ OkBatches(claimCalls) # <<>> =>
             serial_numbers = Concat(OkBatches(claimCalls))

(***************************************************************************)
(* Properties of the device mover (checked under SpecMove)                 *)
(***************************************************************************)

\* the calls move_device issued
MoveOnly == SelectSeq(moveCalls, LAMBDA c : c.op # "list_networks")
DetachReturnedResponse == detachOutcome \in {"204", "404", "500"}
IsDetachOf(c, dev) ==
    c.op = "remove" /\ c.network = dev.networkId /\ c.serials = <<dev.serial>>
IsClaimInto(c, dev, target) ==
    c.op = "claim" /\ c.network = target /\ c.serials = <<dev.serial>>

\* C4: for a device in network A whose detach call returns a response,
\* move_device issues one detach call to A for the device's serial and then
\* one claim call to the target B with exactly that serial; for a device
\* without a network it issues no detach call and the claim call to B.
C4_DetachTargetsSourceClaimTargetsTarget ==
    (mpc = "done" /\ moveResult # "none") =>
       IF device.networkId # 0
       THEN DetachReturnedResponse =>
               /\ Len(MoveOnly) = 2
               /\ IsDetachOf(MoveOnly[1], device)
               /\ IsClaimInto(MoveOnly[2], device, target_network_id)
       ELSE /\ Len(MoveOnly) = 1
            /\ IsClaimInto(MoveOnly[1], device, target_network_id)

\* C4 witness: a device of network A moved into another network B after a
\* detach call that was answered 404
C4_Witness ==
    /\ mpc = "done"
    /\ device.networkId # 0
    /\ device.networkId # target_network_id
    /\ detachOutcome = "404"
    /\ moveResult = "True"

\* C5: a failed detach call, whatever its failure (non-2xx response, timeout,
\* network-level exception), never prevents the claim call into the target.
C5_FailedDetachNeverPreventsClaim ==
    (mpc = "done" /\ \E i \in 1..Len(moveCalls) : moveCalls[i].op = "remove")
       => \E i \in 1..Len(moveCalls) : moveCalls[i].op = "claim"

\* the networks of a list whose name equals the target name case-insensitively
ExactMatches(nets, target) ==
    {i \in 1..Len(nets) : LowerStr(nets[i].name) = LowerStr(target)}

\* C6: whenever the list returned to get_target_network_id contains a network
\* whose name equals the configured target name case-insensitively, the id of
\* such a network is returned, whatever its position in the list.
C6_ExactNameMatchWins ==
    [][ ( /\ mpc = "lookup_target"
          /\ mpc' # "lookup_target"
          /\ ExactMatches(networks', target_network) # {} )
        => \E i \in ExactMatches(networks', target_network) :
              target_network_id' = networks'[i].id ]_vars

(***************************************************************************)
(* Properties of the vMX deployer (checked under SpecVmx)                  *)
(***************************************************************************)

Launched ==
    \E i \in 1..Len(cloud) : cloud[i].op = "run_instances" /\ cloud[i].outcome = "ok"

\* C7: if the run fails after run_instances returned an instance id, a
\* terminate call for that instance id is issued before deploy returns.
C7_LaunchedInstanceTerminatedOnFailure ==
    (vpc = "done" /\ failure = "instance" /\ Launched) =>
       \E j \in 1..Len(cloud) :
          /\ cloud[j].op = "terminate_instances"
          /\ cloud[j].arg = InstanceDict.instance_id

\* C8 as stated: when a stage fails, deploy returns the partial result with
\* every field recorded before the failure.
C8_PartialResultReturned ==
    (vpc = "done" /\ failure # "none") =>
       /\ ~returned.none
       /\ returned.val = deployment_results
       /\ failure # "token" =>
             {"auth_token", "network_id"} \subseteq DOMAIN returned.val

\* C8 as amended: when a stage fails, deploy returns None; the token and the
\* network id recorded after a token success stay in deploy's accumulator,
\* which is not returned, and the accumulator holds no infrastructure entry
\* (no VPC or subnet id) when the infrastructure stage failed.
C8_FailureReturnsNone ==
    (vpc = "done" /\ failure # "none") =>
       /\ returned = None
       /\ failure \in {"infrastructure", "instance", "summary"} =>
             {"auth_token", "network_id"} \subseteq DOMAIN deployment_results
       /\ failure = "infrastructure" =>
             "infrastructure" \notin DOMAIN deployment_results

\* C8 witness: the security-group creation call failed after the VPC and the
\* subnet had been created
C8_Witness ==
    /\ vpc = "done"
    /\ failure = "infrastructure"
    /\ {"vpc_id", "subnet_id"} \subseteq created
    /\ cloud[Len(cloud)].op = "create_security_group"
    /\ cloud[Len(cloud)].outcome = "ClientError"
    /\ DOMAIN deployment_results = {"auth_token", "network_id"}

\* the creation calls of the infrastructure stage
CreationOps ==
    {"create_vpc", "create_internet_gateway", "attach_internet_gateway",
     "create_subnet", "create_route_table", "create_route",
     "associate_route_table", "create_security_group"}

\* C9: after a failed creation call of the infrastructure stage no later
\* creation call and no run_instances call is issued in the run.
C9_NoCallAfterFailedCreation ==
    \A i \in 1..Len(cloud) :
       (cloud[i].op \in CreationOps /\ cloud[i].outcome # "ok") =>
          \A j \in (i + 1)..Len(cloud) :
             cloud[j].op \notin CreationOps \cup {"run_instances"}

\* C9 witness: the route creation failed and deploy has returned
C9_Witness ==
    /\ vpc = "done"
    /\ cloud # <<>>
    /\ cloud[Len(cloud)].op = "create_route"
    /\ cloud[Len(cloud)].outcome = "ClientError"
    /\ failure = "infrastructure"

\* the ingress rules the appliance needs
RequiredRules ==
    {[IpProtocol |-> "tcp", FromPort |-> 22, ToPort |-> 22],
     [IpProtocol |-> "tcp", FromPort |-> 443, ToPort |-> 443],
     [IpProtocol |-> "udp", FromPort |-> 500, ToPort |-> 500],
     [IpProtocol |-> "udp", FromPort |-> 4500, ToPort |-> 4500],
     [IpProtocol |-> "icmp", FromPort |-> -1, ToPort |-> -1],
     [IpProtocol |-> "50", FromPort |-> -1, ToPort |-> -1],
     [IpProtocol |-> "51", FromPort |-> -1, ToPort |-> -1]}

\* C10: whenever infrastructure provisioning reports success, the ingress
\* rules granted on the security group are exactly the seven required rules.
C10_SuccessMeansAllRulesGranted ==
    "infrastructure" \in DOMAIN deployment_results => granted = RequiredRules

(***************************************************************************)
(* Properties of the command-line entry points (checked under SpecCli)     *)
(***************************************************************************)

\* the configuration file was read and lacks a field the program requires
LacksRequiredField ==
    /\ program \in {"network24", "network_local", "scrypt"}
    /\ args.file = "ok"
    /\ \/ "meraki_api_key" \notin config.keys
       \/ "organization_id" \notin config.keys
       \/ /\ program = "scrypt"
          /\ \/ "aws_region" \notin config.keys
             \/ "key_pair_name" \notin config.keys

\* no call to the network-management API or to the cloud API has been issued
NoRemoteCall ==
    /\ apiCalls = <<>>
    /\ claimCalls = <<>>
    /\ pollLog = <<>>
    /\ meraki = <<>>
    /\ cloud = <<>>

\* C11: for a configuration file that lacks a required field, main() goes
\* nowhere but to exit code 1, and no remote call is issued at any point of
\* the run.
C11_MissingFieldExitsBeforeAnyCall ==
    LacksRequiredField =>
       /\ cpc \in {"main", "exit"}
       /\ cpc = "exit" => exit_code = 1
       /\ NoRemoteCall
       /\ npc = "idle" /\ vpc = "idle"

\* C11 witness: the vMX program has exited on a configuration that has
\* everything but key_pair_name
C11_Witness ==
    /\ program = "scrypt"
    /\ args.file = "ok"
    /\ config.keys = {"meraki_api_key", "organization_id", "aws_region", "network_id"}
    /\ cpc = "exit"
    /\ exit_code = 1

(***************************************************************************)
(* Properties of the service handlers (checked under SpecHandler)          *)
(***************************************************************************)

\* the request gives no network_name to the deployment
LacksNetworkName ==
    IF handler = "lambda_handler"
    THEN "network_name" \notin EffectiveConfig
    ELSE "network_name" \notin event

\* the request asks for a device move and names no source device
LacksSourceDevice ==
    /\ handler = "lambda_function"
    /\ "move_device" \in event
    /\ "source_device" \notin event

\* C12: a request that lacks network_name, or that asks for a device move
\* without source_device, is answered with an error response and no remote
\* call is issued before that response.
C12_MissingFieldAnsweredBeforeAnyCall ==
    (handler # "none" /\ (LacksNetworkName \/ LacksSourceDevice)) =>
       /\ hCalls = <<>>
       /\ hpc = "done" => response >= 400

(***************************************************************************)
(* Properties of the deployments (checked under SpecCli and SpecNetCli)    *)
(***************************************************************************)

\* a poll of the network's device list that returned 200 and showed `serial`
PolledWith200(serial) ==
    \E k \in 1..Len(pollLog) :
       /\ pollLog[k].devices_code = 200
       /\ serial \in Range(pollLog[k].devices)

\* the devices of a network deployment result were all seen in a 200 poll
DevicesWerePolled(results) ==
    "devices" \in DOMAIN results =>
       \A i \in 1..Len(results["devices"]) :
          PolledWith200(results["devices"][i].serial)

\* the device of a vMX deployment result was seen in a 200 poll
DeviceWasPolled(results) ==
    "device" \in DOMAIN results =>
       /\ vmxPoll.status = 200
       /\ results["device"] \in Range(vmxPoll.devices)

\* C13: a device is part of 'devices' of the network deployment result, or is
\* 'device' of the vMX deployment result, only if a poll of the remote device
\* list in the same run returned 200 and contained that device.
C13_VerifiedOnlyAfterSuccessfulPoll ==
    /\ DevicesWerePolled(net_deployment_results)
    /\ ~deploy_return.none => DevicesWerePolled(deploy_return.val)
    /\ DeviceWasPolled(deployment_results)
    /\ ~returned.none => DeviceWasPolled(returned.val)

\* C13 witness: two serials were claimed, the poll showed one of them, and
\* deploy returned that one as its devices
C13_Witness ==
    /\ program = "network24"
    /\ cpc = "exit"
    /\ Len(claimed_devices) = 2
    /\ ~deploy_return.none
    /\ "devices" \in DOMAIN deploy_return.val
    /\ Len(deploy_return.val["devices"]) = 1

(***************************************************************************)
(* Properties of verify_devices' join (checked under SpecNet)              *)
(***************************************************************************)

\* position of a serial in a device list
PositionIn(devices, serial) == CHOOSE i \in 1..Len(devices) : devices[i] = serial

\* C14: verify_devices returns at the first round that shows a requested
\* serial, whether or not the other requested serials are visible; what it
\* returns is the devices of that round's list whose serial was requested, in
\* the order of the list, each with the status of the status entry of its own
\* serial, or with none when the status list has no entry for it.
C14_ReturnsJoinOfFirstVisibleRound ==
    verifyExit = "found" =>
       LET result == netResult.val
           shown == lastPoll.devices
       IN /\ \A j \in 1..(Len(pollLog) - 1) : ~RoundHit(pollLog[j])
          /\ RoundHit(pollLog[Len(pollLog)])
          /\ pollLog[Len(pollLog)].devices = shown
          /\ {result[i].serial : i \in 1..Len(result)}
                = Range(shown) \cap Range(serial_numbers)
          /\ Len(result) = Cardinality(Range(shown) \cap Range(serial_numbers))
          /\ \A i, j \in 1..Len(result) :
                i < j => PositionIn(shown, result[i].serial)
                            < PositionIn(shown, result[j].serial)
          /\ \A i \in 1..Len(result) :
                result[i].connectionStatus =
                   IF result[i].serial \in lastPoll.statuses THEN "online"
                   ELSE "None"

\* C14 witness: ten serials were requested; the second round shows one of
\* them and a device nobody asked for, and the status list has an entry for
\* the latter only
C14_Witness ==
    /\ verifyExit = "found"
    /\ Len(serial_numbers) = 10
    /\ Len(pollLog) = 2
    /\ lastPoll.devices = <<1, batch_size + 1>>
    /\ lastPoll.statuses = {batch_size + 1}
    /\ netResult.val = <<[serial |-> 1, connectionStatus |-> "None"]>>

\* the calls of deploy that change a remote resource
ChangingOps == {"create_network", "bind"}

\* C15: after verification ended with the timeout no detach, remove, unclaim
\* or delete call is issued: the calls of the run are the network creation,
\* the template binding and the claims, as in a run whose verification
\* succeeded, and deploy returns its result, the created network included.
C15_TimeoutRollsNothingBack ==
    (program = "network24" /\ verifyExit = "timeout") =>
       /\ \A i \in 1..Len(apiCalls) : apiCalls[i].op \in ChangingOps
       /\ claimed_devices # <<>>
       /\ cpc = "exit" =>
             /\ ~deploy_return.none
             /\ deploy_return.val = net_deployment_results
             /\ "network_id" \notin config.keys =>
                   /\ "network" \in DOMAIN deploy_return.val
                   /\ exit_code = 0

\* C15 witness: a network was created, a serial was claimed, four rounds
\* showed nothing, and deploy has returned the network
C15_Witness ==
    /\ program = "network24"
    /\ verifyExit = "timeout"
    /\ Len(pollLog) = 4
    /\ claimed_devices = <<1>>
    /\ cpc = "exit"
    /\ DOMAIN deploy_return.val = {"network"}

\* the remote of the scenario: one configured serial and no network id, 201
\* on the network creation, 200 on the claim, a first poll round that shows
\* no such serial and a second one that shows it
BranchScenario ==
    /\ program = "network24"
    /\ config.device_serials = <<1>>
    /\ "network_id" \notin config.keys
    /\ apiCalls # <<>>
    /\ apiCalls[1] = ApiCall("create_network", 201)
    /\ claimCalls = <<[serials |-> <<1>>, outcome |-> 200,
                       networkId |-> network_id]>>
    /\ Len(pollLog) >= 2
    /\ RoundBoth200(pollLog[1])
    /\ 1 \notin Range(pollLog[1].devices)
    /\ RoundBoth200(pollLog[2])
    /\ 1 \in Range(pollLog[2].devices)

\* C16: in that scenario verification takes exactly 2 poll rounds and deploy
\* returns a result with the created network and its id and with exactly one
\* verified device record, that of the configured serial, whatever the
\* template binding ended with.
C16_BranchScenarioResult ==
    BranchScenario =>
       /\ Len(pollLog) = 2
       /\ verifyExit = "found"
       /\ Len(apiCalls) = 2
       /\ apiCalls[2].op = "bind"
       /\ cpc \in {"add_devices", "exit"}
       /\ cpc = "exit" =>
             /\ ~deploy_return.none
             /\ DOMAIN deploy_return.val = {"network", "devices"}
             /\ deploy_return.val["network"].id = "N_created"
             /\ Len(deploy_return.val["devices"]) = 1
             /\ deploy_return.val["devices"][1].serial = 1
             /\ exit_code = 0

\* C16 witness: the scenario has run to its end after a template binding that
\* was refused
C16_Witness ==
    /\ BranchScenario
    /\ apiCalls[2] = BindCall(400)
    /\ cpc = "exit"

(***************************************************************************)
(* Properties of the relocation workflow (checked under SpecRelocate)      *)
(***************************************************************************)

\* the operations of the remote calls issued so far, in order
CallOps == [i \in 1..Len(moveCalls) |-> moveCalls[i].op]

\* the orders the relocation calls may come in
RelocationOrders ==
    {<<>>,
     <<"get_inventory_devices">>,
     <<"get_inventory_devices", "list_networks">>,
     <<"get_inventory_devices", "list_networks", "remove">>,
     <<"get_inventory_devices", "list_networks", "claim">>,
     <<"get_inventory_devices", "list_networks", "remove", "claim">>}

\* the inventory entries that the source identifier names: the MAC without
\* separators and in lower case, or the serial
NamedBySource(devices) ==
    {i \in 1..Len(devices) :
        \/ LowerStr(StripColons(devices[i].mac)) = LowerStr(StripColons(source_serial))
        \/ LowerStr(devices[i].serial) = LowerStr(StripColons(source_serial))}

ClaimAnswered2xx ==
    \E i \in 1..Len(moveCalls) :
       moveCalls[i].op = "claim" /\ moveCalls[i].outcome \in {"200", "201"}

\* C17: the remote calls of a relocation run come in the order source lookup,
\* target lookup, optional detach, claim; the device worked on is the first
\* inventory entry that matches; a source lookup without a match or a target
\* lookup without a network ends the run with exit 1 and without a detach or
\* claim call; the run exits 0 exactly when the claim call was answered 200
\* or 201.
C17_RelocationOrderAndOutcome ==
    program = "device_move" =>
       /\ CallOps \in RelocationOrders
       /\ Len(moveCalls) >= 1 /\ moveCalls[1].outcome = "200" =>
             IF NamedBySource(inventory) = {}
             THEN mpc = "done" /\ Len(moveCalls) = 1
             ELSE /\ device \in Range(inventory)
                  /\ \A i \in NamedBySource(inventory) :
                        PositionIn(inventory, device) <= i
                  /\ PositionIn(inventory, device) \in NamedBySource(inventory)
       /\ Len(moveCalls) >= 1 /\ moveCalls[1].outcome # "200" =>
             mpc = "done" /\ Len(moveCalls) = 1
       /\ Len(moveCalls) >= 2 /\ target_network_id = 0 =>
             mpc = "done" /\ Len(moveCalls) = 2
       /\ cpc = "exit" =>
             /\ exit_code \in {0, 1}
             /\ exit_code = 0 <=> ClaimAnswered2xx
       /\ ClaimAnswered2xx => mpc = "done" /\ moveResult = "True"

\* C17 witness: two inventory entries match the MAC, the first of them is in
\* a network; it was detached, claimed with 201, and the run exited 0
C17_Witness ==
    /\ program = "device_move"
    /\ Cardinality(NamedBySource(inventory)) = 2
    /\ device = inventory[1]
    /\ CallOps = <<"get_inventory_devices", "list_networks", "remove", "claim">>
    /\ moveCalls[4].outcome = "201"
    /\ cpc = "exit"
    /\ exit_code = 0

(***************************************************************************)
(* Properties of the vMX deployment by either program (SpecVmxRuns)        *)
(***************************************************************************)

\* the run succeeded: deploy returned its results, or the script ran to the
\* end of main()
VmxRunSucceeded ==
    \/ program = "deploy_meraki_vmx" /\ exit_code = 0
    \/ program # "deploy_meraki_vmx" /\ ~returned.none

\* the place of a cloud call in the creation order "VPC, DNS attributes,
\* gateway, attach, subnet, route table, default route, associate, security
\* group, ingress rules, IAM, launch, wait, read back"; 0 for a call the
\* order does not list
ListedRank(op) ==
    CASE op = "create_vpc" -> 1
      [] op \in {"modify_vpc_attribute_hostnames", "modify_vpc_attribute_support"} -> 2
      [] op = "create_internet_gateway" -> 3
      [] op = "attach_internet_gateway" -> 4
      [] op = "create_subnet" -> 5
      [] op = "create_route_table" -> 6
      [] op = "create_route" -> 7
      [] op = "associate_route_table" -> 8
      [] op = "create_security_group" -> 9
      [] op = "authorize_security_group_ingress" -> 10
      [] op \in Range(IamOps) -> 11
      [] op = "run_instances" -> 12
      [] op = "wait_instance_running" -> 13
      [] op = "describe_instances" -> 14
      [] OTHER -> 0

\* the same order with the subnet made before the gateway
SubnetFirstRank(op) ==
    CASE op = "create_subnet" -> 3
      [] op = "create_internet_gateway" -> 4
      [] op = "attach_internet_gateway" -> 5
      [] OTHER -> ListedRank(op)

\* the listed calls of the log come in the order of their ranks
InRankOrder(rank(_)) ==
    \A i, j \in 1..Len(cloud) :
       i < j /\ rank(cloud[i].op) # 0 /\ rank(cloud[j].op) # 0 =>
          rank(cloud[i].op) <= rank(cloud[j].op)

\* the ranks that occur in the log
RanksSeen(rank(_)) == {rank(cloud[i].op) : i \in 1..Len(cloud)} \ {0}

\* every call was given only identifiers that earlier calls had returned
UsesEarlierIdentifiers ==
    \A i \in 1..Len(cloud) :
       CallUses(cloud[i].op) \subseteq
          UNION {CallYields(cloud[k].op) :
                   k \in {k \in 1..(i - 1) : cloud[k].outcome = "ok"}}

\* C18 as stated: in a successful vMX infrastructure run of either program
\* the cloud calls come in the order VPC, DNS attributes, gateway, attach,
\* subnet, route table, default route, associate, security group, ingress
\* rules, optional IAM, launch, wait, read back, and each uses identifiers
\* returned earlier.
C18_ListedOrderInEveryProgram ==
    VmxRunSucceeded =>
       /\ InRankOrder(ListedRank)
       /\ (1..14) \ {11} \subseteq RanksSeen(ListedRank)
       /\ UsesEarlierIdentifiers

\* C18 amended: in a successful vMX infrastructure run every cloud call uses
\* only identifiers returned by earlier calls and every listed step but the
\* optional IAM one is taken; MerakiVMXDeployer issues the steps in the
\* listed order, while the script deploy_meraki_vmx.py creates the subnet
\* before the internet gateway and has no IAM step.
C18_CreationOrderPerProgram ==
    /\ UsesEarlierIdentifiers
    /\ IF program = "deploy_meraki_vmx"
       THEN /\ InRankOrder(SubnetFirstRank)
            /\ 11 \notin RanksSeen(ListedRank)
       ELSE InRankOrder(ListedRank)
    /\ VmxRunSucceeded => (1..14) \ {11} \subseteq RanksSeen(ListedRank)

\* C18 witness: the script ran to its end, with the subnet created before
\* the gateway
C18_Witness ==
    /\ program = "deploy_meraki_vmx"
    /\ exit_code = 0
    /\ \E i, j \in 1..Len(cloud) :
          /\ i < j
          /\ cloud[i].op = "create_subnet"
          /\ cloud[j].op = "create_internet_gateway"
    /\ cloud[Len(cloud)].op = "describe_instances"

\* C18 witness of the deployer: deploy returned its results after a launch
\* with an instance profile
C18_WitnessDeployer ==
    /\ program = "none"
    /\ ~returned.none
    /\ \E i \in 1..Len(cloud) : cloud[i].op = "get_instance_profile"

\* the token stage ended with a token response of status 201
TokenStageEnded201 ==
    /\ meraki # <<>>
    /\ meraki[Len(meraki)].op = "authenticationToken"
    /\ meraki[Len(meraki)].status = 201
    /\ meraki[Len(meraki)].token \in Tokens

\* the tokens a bootstrap script carries
TokensEmbedded(user_data) ==
    {user_data.script[k].value :
        k \in {k \in 1..Len(user_data.script) :
                 user_data.script[k].line \in {"echo_auth_token", "auth_token"}}}

\* C19: no cloud call (VPC creation or any later call, and the token store
\* before them) is issued unless the token stage ended with a 201 token
\* response, and the bootstrap data of every instance-launch call carries
\* exactly the token of that response.
C19_InfrastructureOnlyAfterToken ==
    /\ cloud # <<>> => TokenStageEnded201
    /\ \A i \in 1..Len(cloud) :
          cloud[i].op = "run_instances" =>
             TokensEmbedded(cloud[i].user_data) = {meraki[Len(meraki)].token}

\* C19 witness: the deployer launched the instance with the second token,
\* requested for a configured network
C19_Witness ==
    /\ program = "none"
    /\ network_id = "N_configured"
    /\ meraki # <<>>
    /\ cloud # <<>>
    /\ meraki[Len(meraki)].token = "T-2"
    /\ cloud[Len(cloud)].op = "run_instances"
    /\ cloud[Len(cloud)].outcome = "ok"
    /\ cloud[1].op = "put_parameter"
    /\ \E i \in 1..Len(cloud) : cloud[i].op = "create_vpc"

(***************************************************************************)
(* The token stage of MerakiVMXDeployer, entered from scrypt.py's main()   *)
(* (checked under SpecCli)                                                 *)
(***************************************************************************)

NetworkCreated ==
    \E i \in 1..Len(meraki) : meraki[i].op = "create_network"

\* C20: the token stage of MerakiVMXDeployer issues a create-network call
\* exactly when the configuration provides no network_id, as its first call;
\* with a network_id provided every token request names that network and no
\* network is created in the run.
C20_NetworkCreatedIffNotConfigured ==
    program = "scrypt" /\ meraki # <<>> =>
       /\ NetworkCreated <=> "network_id" \notin config.keys
       /\ "network_id" \notin config.keys => meraki[1].op = "create_network"
       /\ "network_id" \in config.keys =>
             \A i \in 1..Len(meraki) :
                /\ meraki[i].op = "authenticationToken"
                /\ meraki[i].network = "N_configured"

\* C20 witness: a run with a configured network got its token for that
\* network and went on to create the VPC
C20_Witness ==
    /\ program = "scrypt"
    /\ "network_id" \in config.keys
    /\ Len(meraki) = 1
    /\ meraki[1].op = "authenticationToken"
    /\ meraki[1].status = 201
    /\ meraki[1].network = "N_configured"
    /\ \E i \in 1..Len(cloud) : cloud[i].op = "create_vpc"

\* C20 witness of the other case: without a configured network the run
\* created one and requested the token for it
C20_WitnessCreated ==
    /\ program = "scrypt"
    /\ "network_id" \notin config.keys
    /\ Len(meraki) = 2
    /\ meraki[1].op = "create_network"
    /\ meraki[2].op = "authenticationToken"
    /\ meraki[2].network = "N_created"

(***************************************************************************)
(* Properties of MerakiVMXDeployer.deploy (checked under SpecVmx)          *)
(***************************************************************************)

\* the cloud calls that create, configure or read
ProvisioningOps ==
    Range(InfraOps) \cup Range(IamOps) \cup
       {"put_parameter", "authorize_security_group_ingress", "describe_images",
        "run_instances", "wait_instance_running", "describe_instances"}

\* C21: no delete, unbind or unclaim call goes to the network-management API
\* (it sees create-network and token calls only), so a network created in
\* the token stage outlives every later failure; and the only cloud call that
\* undoes anything is the termination of the instance launched by this run.
C21_NoRollbackBeyondOwnInstance ==
    /\ \A i \in 1..Len(meraki) :
          meraki[i].op \in {"create_network", "authenticationToken"}
    /\ \A i \in 1..Len(cloud) :
          cloud[i].op \notin ProvisioningOps =>
             /\ cloud[i].op = "terminate_instances"
             /\ \E k \in 1..(i - 1) :
                   /\ cloud[k].op = "run_instances"
                   /\ cloud[k].outcome = "ok"
                   /\ cloud[k].arg = cloud[i].arg
    /\ (\E i \in 1..Len(meraki) :
           meraki[i].op = "create_network" /\ meraki[i].status = 201)
          => network_id = "N_created"

\* C21 witness: the network was created, the launch failed afterwards and
\* deploy has returned after its cleanup
C21_Witness ==
    /\ vpc = "done"
    /\ failure = "instance"
    /\ returned.none
    /\ network_id = "N_created"
    /\ \E i \in 1..Len(meraki) :
          meraki[i].op = "create_network" /\ meraki[i].status = 201
    /\ \E i \in 1..Len(cloud) :
          cloud[i].op = "wait_instance_running" /\ cloud[i].outcome = "other"

(***************************************************************************)
(* Properties of the network managers' deploy (checked under SpecNetworks) *)
(***************************************************************************)

\* positions of the create-network calls among the calls of the run
CreateCalls ==
    {i \in 1..Len(apiCalls) : apiCalls[i].op = "create_network"}

\* C22: create_network issues one creation call; the network counts as
\* created, and its id is recorded, exactly when the status is 201; after any
\* other status (200 included) or a request exception the recorded id is
\* unchanged and deploy returns at once: no template, bind, inventory or claim
\* call follows.
C22_CreatedOnlyOn201 ==
    /\ Cardinality(CreateCalls) <= 1
    /\ cpc \in {"create_network", "main"} => CreateCalls = {}
    /\ \A i \in CreateCalls :
          IF apiCalls[i].status = 201
          THEN /\ network_id = "N_created"
               /\ net_deployment_results["network"].id = "N_created"
          ELSE /\ network_id = ""
               /\ net_deployment_results = <<>>
               /\ i = Len(apiCalls)
               /\ claimCalls = <<>>
               /\ pollLog = <<>>
               /\ cpc = "exit"
               /\ deploy_return = None
    /\ network_id = "N_created" =>
          \E i \in CreateCalls : apiCalls[i].status = 201

\* C22 witness: the create call was answered 200 and the run is over with
\* nothing recorded
C22_Witness ==
    /\ program = "network_local"
    /\ cpc = "exit"
    /\ Len(apiCalls) = 2
    /\ apiCalls[2] = ApiCall("create_network", 200)
    /\ network_id = ""
    /\ deploy_return = None

\* positions of the calls of one kind among the calls of the run
CallsOf(op) == {i \in 1..Len(apiCalls) : apiCalls[i].op = op}

\* the templates of a list that carry the requested name
NamedTemplates(templates) ==
    {k \in 1..Len(templates) : templates[k].name = template_name}

\* C23: bind_template makes one list call; a bind call follows only a 200
\* list with a template of exactly the requested name, carries the id of the
\* first such template in list order and autoBind false, and the method
\* returns True exactly when the bind call is answered 200; after a failed
\* list call or a list without the name it returns False with no bind call.
C23_BindsFirstExactNameMatch ==
    program = "network_local" =>
       /\ Cardinality(CallsOf("get_config_templates")) <= 1
       /\ \A i \in CallsOf("bind") :
             /\ i > 1
             /\ apiCalls[i - 1].op = "get_config_templates"
             /\ apiCalls[i - 1].status = 200
             /\ LET templates == apiCalls[i - 1].templates
                IN \E k \in NamedTemplates(templates) :
                      /\ \A j \in NamedTemplates(templates) : k <= j
                      /\ apiCalls[i].configTemplateId = templates[k].id
             /\ apiCalls[i].autoBind = FALSE
             /\ apiCalls[i].returns = "True" <=> apiCalls[i].status = 200
             /\ apiCalls[i].returns \in {"True", "False"}
       /\ \A i \in CallsOf("get_config_templates") :
             IF apiCalls[i].status = 200
                /\ NamedTemplates(apiCalls[i].templates) # {}
             THEN /\ apiCalls[i].returns = "none"
                  /\ cpc # "bind_template" => i + 1 \in CallsOf("bind")
             ELSE /\ apiCalls[i].returns = "False"
                  /\ CallsOf("bind") = {}

\* C23 witness: the list held a template of a longer name before one of the
\* requested name, which was bound with 200
C23_Witness ==
    /\ program = "network_local"
    /\ \E i \in CallsOf("bind") :
          /\ apiCalls[i].status = 200
          /\ apiCalls[i].configTemplateId = "L_2"
          /\ apiCalls[i - 1].templates[1].id = "L_3"
          /\ apiCalls[i - 1].templates[2].id = "L_2"

\* the binding step of the run ended without a bound template
BindingFailed ==
    \/ \E i \in CallsOf("bind") : apiCalls[i].status # 200
    \/ \E i \in CallsOf("get_config_templates") : apiCalls[i].returns = "False"

\* what deploy returns at the end of a run, told from the creation and the
\* device steps alone
ReturnApartFromBinding ==
    LET network == IF \E i \in CreateCalls : apiCalls[i].status = 201
                   THEN ("network" :> [id |-> "N_created"])
                   ELSE <<>>
        devices == IF ~netResult.none /\ netResult.val # <<>>
                   THEN ("devices" :> netResult.val)
                   ELSE <<>>
    IN IF program = "network24"
       THEN IF npc = "raised" THEN None ELSE Some(network @@ devices)
       ELSE IF apiCalls[Len(apiCalls)].status = "available"
            THEN None
            ELSE Some(network)

\* deploy has gone past the binding step and returned
ReturnedAfterBinding ==
    /\ cpc = "exit"
    /\ CallsOf("bind") \cup CallsOf("get_config_templates") # {}

\* C24: a failed template binding (list call refused, no template of the
\* name, bind call not answered 200, request exception) does not end deploy:
\* the device step follows, and what deploy returns is told by the creation
\* and device steps alone, the same with and without a bound template.
C24_BindingFailureTolerated ==
    /\ BindingFailed /\ cpc = "exit" =>
          IF program = "network24"
          THEN npc \in {"done", "raised"}
          ELSE CallsOf("get_inventory") # {}
    /\ ReturnedAfterBinding => deploy_return = ReturnApartFromBinding

\* C24 witness: the bind call raised, the devices were claimed and verified,
\* and deploy returned the network and the devices
C24_Witness ==
    /\ program = "network24"
    /\ cpc = "exit"
    /\ exit_code = 0
    /\ \E i \in CallsOf("bind") : apiCalls[i].status = -1
    /\ ~deploy_return.none
    /\ DOMAIN deploy_return.val = {"network", "devices"}

\* C24 witness of the other manager: no template of the name, no bind call,
\* three inventory attempts, and deploy returned the network
C24_WitnessNoTemplate ==
    /\ program = "network_local"
    /\ cpc = "exit"
    /\ CallsOf("bind") = {}
    /\ \E i \in CallsOf("get_config_templates") :
          apiCalls[i].status = 200 /\ apiCalls[i].returns = "False"
    /\ Cardinality(CallsOf("get_inventory")) = 3
    /\ deploy_return = Some("network" :> [id |-> "N_created"])

(***************************************************************************)
(* Properties of a single remote call (checked under SpecTransport)        *)
(***************************************************************************)

\* the attempt was answered with a status of the retry list
AnsweredRetryable(i) ==
    attempts[i].kind = "response" /\ attempts[i].status \in status_forcelist

\* C25: every call of the network manager and of the device mover to the
\* network-management API is re-sent after a response with a status in
\* {408, 429, 500, 502, 503, 504}, at most 5 times, and is not re-sent after
\* any other status or after a network-level exception, which reach the
\* caller at once.
C25_RetriedOnListedStatusesOnly ==
    \A i \in 1..Len(attempts) :
       /\ i <= retry_total + 1
       /\ AnsweredRetryable(i) /\ i <= retry_total =>
             Len(attempts) > i \/ tpc = "sending"
       /\ ~AnsweredRetryable(i) =>
             i = Len(attempts) /\ tpc \in {"returned", "raised", "blocked"}

\* C26: every remote call is bounded by a timeout: a call the remote never
\* answers ends for its caller with a Timeout failure, never with a wait
\* without end.
C26_EveryCallTimesOut ==
    /\ tpc # "blocked"
    /\ \A i \in 1..Len(attempts) :
          attempts[i].kind # "no_answer"

(***************************************************************************)
(* Status codes of lambda_handler.py (checked under SpecHandler)           *)
(***************************************************************************)

\* the request input is bad: the body is no JSON, or no string is given for
\* network_name
BadRequestInput ==
    /\ invocation.config_file = "ok"
    /\ invocation.body = "not_json" \/ ~NetworkNameValid

\* manager.deploy() returned a network
DeploymentSucceeded ==
    \E i \in 1..Len(hCalls) :
       hCalls[i].op = "create_network" /\ hCalls[i].status = 201

\* C27: the service handler answers every invocation with one of 200, 400 and
\* 500: 200 when the deployment succeeded, 400 when the request input is bad
\* (network_name missing or no string, body no valid JSON), and 500 only for
\* an internal failure (config file missing or invalid, deployment failed,
\* unexpected exception).
C27_StatusCodeByCause ==
    handler = "lambda_handler" /\ hpc = "done" =>
       /\ response \in {200, 400, 500}
       /\ response = 400 <=> BadRequestInput
       /\ response = 200 => DeploymentSucceeded
       /\ response = 500 => ~BadRequestInput

(***************************************************************************)
(* Exit codes of meraki_network24JULY.py (checked under SpecNetCli)        *)
(***************************************************************************)

\* main() exited before deploy: no file, no JSON, or a required field missing
ExitedBeforeDeploy ==
    args.file # "ok" \/ ~(RequiredFields(program) \subseteq config.keys)

\* the creation call was made and not answered 201
CreationFailed ==
    \E i \in CallsOf("create_network") : ~CreateSucceeded(apiCalls[i].status)

\* the creation call was answered 201
CreatedWith201 ==
    \E i \in CallsOf("create_network") : apiCalls[i].status = 201

\* C28: the network CLI exits 1 whenever the config file is missing or
\* invalid, a required field is missing, network creation fails, or deploy
\* raises; it exits 0 whenever the network is created with 201 and deploy runs
\* to completion, whatever template binding, claiming and verification gave.
C28_ExitCodeOfNetworkCli ==
    program = "network24" /\ cpc = "exit" =>
       /\ exit_code \in {0, 1}
       /\ ExitedBeforeDeploy \/ CreationFailed \/ npc = "raised" =>
             exit_code = 1
       /\ CreatedWith201 /\ npc # "raised" => exit_code = 0

\* C28 witness: created with 201, the bind call refused, the claim rejected
\* and nothing verified, and the exit code is 0
C28_Witness ==
    /\ program = "network24"
    /\ cpc = "exit"
    /\ CreatedWith201
    /\ \E i \in CallsOf("bind") : apiCalls[i].status # 200
    /\ claimed_devices = <<>>
    /\ netResult.none
    /\ exit_code = 0

\* C28 witness: deploy raised after the network was created, exit code 1
C28_WitnessRaised ==
    /\ program = "network24"
    /\ cpc = "exit"
    /\ CreatedWith201
    /\ npc = "raised"
    /\ exit_code = 1

(***************************************************************************)
(* Two concurrent deployment runs (checked under SpecRuns)                 *)
(***************************************************************************)

\* run r created its network: its creation call was answered 201
RunCreatedNetwork(r) ==
    \E i \in 1..Len(runs[r].calls) :
       runs[r].calls[i].op = "create_network" /\ runs[r].calls[i].status = 201

\* before its create call the run has called nothing but the access check of
\* its constructor: no lookup of the networks, no lock
NothingBeforeCreate(r) ==
    \A i \in 1..Len(runs[r].calls) :
       runs[r].calls[i].op = "create_network" =>
          \A j \in 1..(i - 1) : runs[r].calls[j].op = "get_organization"

\* the calls of the run carry its own name and its own network_id
CallsCarryOwnState(r) ==
    \A i \in 1..Len(runs[r].calls) :
       /\ runs[r].calls[i].op = "create_network" =>
             runs[r].calls[i].arg = runs[r].config.network_name
       /\ runs[r].calls[i].op = "bind" =>
             runs[r].calls[i].arg = runs[r].network_id

\* the network_id of the run is the one of its config or the one the remote
\* gave to its own creation
OwnNetworkRecorded(r) ==
    IF RunCreatedNetwork(r)
    THEN /\ \E k \in 1..Len(remote) :
               /\ remote[k].id = runs[r].network_id
               /\ remote[k].name = runs[r].config.network_name
         /\ \A q \in Runs \ {r} :
               RunCreatedNetwork(q) => runs[q].network_id # runs[r].network_id
    ELSE runs[r].network_id \in {"", runs[r].config.network_id}

\* a step is the step of one run and leaves the record of the other as it was
OneRunSteps == \E r \in Runs : \A q \in Runs \ {r} : runs'[q] = runs[q]

\* C29: two concurrent deployment runs with the same network name are not
\* coordinated: no run looks up the networks or takes a lock before its create
\* call, each records the network the remote created for it, and no run reads
\* or writes the config, the network_id or the results of the other.
C29_RunsNotCoordinated ==
    /\ [](\A r \in Runs : /\ NothingBeforeCreate(r)
                          /\ CallsCarryOwnState(r)
                          /\ OwnNetworkRecorded(r))
    /\ [][OneRunSteps]_vars

\* C29 witness: the remote holds two networks of one name, one recorded by
\* each run
C29_Witness ==
    /\ runs[1].config.network_name = runs[2].config.network_name
    /\ RunCreatedNetwork(1) /\ RunCreatedNetwork(2)
    /\ \E k \in 1..Len(remote), l \in 1..Len(remote) :
          /\ k # l
          /\ remote[k].name = remote[l].name
          /\ remote[k].id = runs[1].network_id
          /\ remote[l].id = runs[2].network_id
    /\ runs[1].pc = "done" /\ runs[2].pc = "done"

(***************************************************************************)
(* verify_vmx_deployment (checked under SpecVmxLive)                       *)
(***************************************************************************)

\* the latest poll was answered 200 without a vMX in its list
LastPollEmpty == vmxPoll.status = 200 /\ FirstVmx(vmxPoll.devices) = 0

\* the polls issued so far: the counted ones and the one that ended the loop
VmxPollsIssued ==
    vattempt + (IF vmxPoll = NoVmxPoll \/ LastPollEmpty THEN 0 ELSE 1)

\* the loop is left for good reason: a vMX in the list, a poll that failed,
\* or 30 polls without a vMX
VerifyLoopState ==
    /\ vattempt <= vmx_max_attempts
    /\ VmxPollsIssued <= vmx_max_attempts
    /\ vpc = "verify" =>
          vattempt < vmx_max_attempts /\ (vmxPoll = NoVmxPoll \/ LastPollEmpty)
    /\ vmxPoll # NoVmxPoll /\ vpc # "verify" =>
          IF vmxPoll.status = 200 /\ FirstVmx(vmxPoll.devices) # 0
          THEN /\ "device" \in DOMAIN deployment_results
               /\ deployment_results["device"] =
                     vmxPoll.devices[FirstVmx(vmxPoll.devices)]
          ELSE /\ "device" \notin DOMAIN deployment_results
               /\ vmxPoll.status = 200 => vattempt = vmx_max_attempts

\* a poll counts an attempt exactly when it shows no vMX, and only then may
\* the loop go on
VerifyPollStep ==
    vpc = "verify" =>
       /\ vattempt' = vattempt + 1 <=>
             vmxPoll'.status = 200 /\ FirstVmx(vmxPoll'.devices) = 0
       /\ vattempt' # vattempt + 1 => vattempt' = vattempt /\ vpc' # "verify"

\* C30: verify_vmx_deployment issues at most 30 device-list polls and always
\* terminates: it returns the first device whose model starts with 'vMX' at
\* the first poll that lists one, counts an attempt for every poll without such
\* a device, and stops at the first non-200 response or request exception.
C30_VerifyVmxBoundedAndTerminates ==
    /\ []VerifyLoopState
    /\ [][VerifyPollStep]_vars
    /\ (vpc = "verify") ~> (vpc # "verify")

\* C30 witness: 30 polls without a vMX, the loop left without a device
C30_Witness ==
    /\ vpc = "summary"
    /\ vattempt = vmx_max_attempts
    /\ LastPollEmpty
    /\ "device" \notin DOMAIN deployment_results

\* C30 witness: a vMX listed second at a later poll is the device returned
C30_WitnessFound ==
    /\ vpc = "summary"
    /\ vattempt > 0
    /\ FirstVmx(vmxPoll.devices) = 2
    /\ deployment_results["device"] = vmxPoll.devices[2]

(***************************************************************************)
(* The end of deploy after the registration polling (checked under SpecVmx)*)
(***************************************************************************)

\* the polling has ended without a vMX: 30 polls without one, or a poll that
\* was not answered 200 or raised
PollingEndedWithoutDevice ==
    /\ vmxPoll # NoVmxPoll
    /\ vpc # "verify"
    /\ ~(vmxPoll.status = 200 /\ FirstVmx(vmxPoll.devices) # 0)

\* C31: when the registration polling ends without finding the device, deploy
\* goes on to its summary and returns the result with network id,
\* infrastructure and instance and without a device entry, and no terminate
\* call is issued for the running instance.
C31_UnregisteredVmxStillReturned ==
    PollingEndedWithoutDevice =>
       /\ failure \in {"none", "summary"}
       /\ {"network_id", "infrastructure", "instance"}
             \subseteq DOMAIN deployment_results
       /\ "device" \notin DOMAIN deployment_results
       /\ vpc = "done" /\ failure = "none" =>
             returned = Some(deployment_results)
       /\ \A i \in 1..Len(cloud) : cloud[i].op # "terminate_instances"

\* C31 witness: 30 polls without a vMX and deploy has returned its result
C31_Witness ==
    /\ PollingEndedWithoutDevice
    /\ vattempt = vmx_max_attempts
    /\ vpc = "done"
    /\ ~returned.none

\* C31 witness: a poll raised and deploy has returned its result
C31_WitnessPollFailed ==
    /\ PollingEndedWithoutDevice
    /\ vmxPoll.status = -1
    /\ vpc = "done"
    /\ ~returned.none

(***************************************************************************)
(* scrypt.py --dry-run (checked under SpecCli)                             *)
(***************************************************************************)

\* main() of scrypt.py was given --dry-run and a config with every required
\* field
DryRunValidated ==
    /\ program = "scrypt"
    /\ args.dry_run
    /\ args.file = "ok"
    /\ RequiredFields(program) \subseteq config.keys

\* C32: with --dry-run and a config that holds every required field the vMX
\* CLI makes no remote call and creates nothing: no deployer is constructed,
\* no network is created, no token is requested; main returns (exit 0).
C32_DryRunCallsNothing ==
    DryRunValidated =>
       /\ vpc = "idle"
       /\ meraki = <<>>
       /\ cloud = <<>>
       /\ apiCalls = <<>>
       /\ created = {}
       /\ network_id = ""
       /\ deployment_results = <<>>
       /\ cpc \in {"main", "exit"}
       /\ cpc = "exit" => exit_code = 0

\* C32 witness: a dry run with a valid config has ended
C32_Witness ==
    /\ DryRunValidated
    /\ cpc = "exit"
    /\ exit_code = 0

(***************************************************************************)
(* Verification timeout and the callers of deploy (checked under           *)
(* SpecNetCli)                                                             *)
(***************************************************************************)

\* C33: a verification timeout never turns a network deployment into a
\* failure: with a configured network_id as with a created network, a deploy
\* that ran to its end with a verification that timed out returns a result
\* that main() takes for a success (exit code 0).
C33_TimeoutTakenForSuccess ==
    /\ program = "network24"
    /\ cpc = "exit"
    /\ npc = "done"
    /\ verifyExit = "timeout"
    => exit_code = 0

(***************************************************************************)
(* The device step of the service handler's network manager (checked under *)
(* SpecNetworks)                                                           *)
(***************************************************************************)

\* the organization inventory reported an available device
InventoryAvailable ==
    \E i \in CallsOf("get_inventory") : apiCalls[i].status = "available"

\* C34: in deploy of workinglocal/meraki_network.py, when the network is
\* created with 201 and the inventory reports an available device, the
\* configured serials are claimed and verified and deploy returns a result
\* that holds the created network.
C34_AvailableDevicesClaimed ==
    /\ program = "network_local"
    /\ cpc = "exit"
    /\ CreatedWith201
    /\ InventoryAvailable
    => /\ ~deploy_return.none
       /\ "network" \in DOMAIN deploy_return.val
       /\ claimCalls # <<>>

(***************************************************************************)
(* The recorded network id within one run (checked under SpecNetworks)     *)
(***************************************************************************)

\* the constructor reads the id from the config
ConstructorWrites ==
    /\ cpc = "main"
    /\ network_id' = ConfiguredNetwork(config.keys)

\* create_network records the id of a 201 response, entered without an id
CreateNetworkWrites ==
    /\ cpc = "create_network"
    /\ network_id = ""
    /\ apiCalls' # <<>>
    /\ apiCalls'[Len(apiCalls')].op = "create_network"
    /\ apiCalls'[Len(apiCalls')].status = 201
    /\ network_id' # ""

\* every bind, claim and poll call of the run went to the recorded id
CallsAddressedToNetwork ==
    /\ \A i \in CallsOf("bind") : apiCalls[i].network = network_id
    /\ \A k \in 1..Len(claimCalls) : claimCalls[k].networkId = network_id
    /\ \A k \in 1..Len(pollLog) : pollLog[k].network = network_id

\* C35: within one run of the network manager the recorded network id is
\* written at most once after construction, only by create_network on a 201
\* response and only when none was configured; binding, claiming and
\* verification never change it, and every bind, claim and poll call is
\* addressed to it.
C35_NetworkIdWrittenOnce ==
    /\ [][network_id' # network_id =>
             ConstructorWrites \/ CreateNetworkWrites]_vars
    /\ [](cpc \notin {"main", "create_network"} =>
             /\ network_id # "" \/ cpc = "exit"
             /\ CallsAddressedToNetwork)

\* C35 witness: the id of a created network was used by the bind call, a
\* claim call and a poll round
C35_Witness ==
    /\ program = "network24"
    /\ network_id = "N_created"
    /\ CallsOf("bind") # {}
    /\ claimCalls # <<>>
    /\ pollLog # <<>>
    /\ CallsAddressedToNetwork

(***************************************************************************)
(* Termination of verify_devices (checked under SpecNetLive)               *)
(***************************************************************************)

\* the round raised a request exception
RoundRaised(round) == round.status_code = -1

\* one of the two calls of the round was answered with a status other than 200
RoundRefused(round) == ~RoundBoth200(round) /\ ~RoundRaised(round)

\* the rounds that consumed an attempt: no requested device shown, or raised
CountedRounds ==
    {k \in 1..Len(pollLog) : RoundEmpty(pollLog[k]) \/ RoundRaised(pollLog[k])}

VerifyDevicesLoop ==
    /\ Len(pollLog) <= max_attempts
    /\ attempt = Cardinality(CountedRounds)
    /\ npc = "verify" => attempt < max_attempts
    /\ \A k \in 1..Len(pollLog) :
          /\ RoundRefused(pollLog[k]) =>
                /\ k = Len(pollLog)
                /\ npc = "done"
                /\ verifyExit = "failed"
                /\ netResult = None
          /\ RoundHit(pollLog[k]) => k = Len(pollLog) /\ npc = "done"

\* C36: verify_devices terminates for every sequence of remote outcomes: every
\* round returns or counts an attempt, so at most 4 rounds are performed; a
\* round that raised consumes one attempt; a status other than 200 on either
\* call ends verification at once with failure, the other attempts unused.
C36_VerifyDevicesTerminates ==
    /\ []VerifyDevicesLoop
    /\ (npc = "verify") ~> (npc = "done")

\* C36 witness: the first call of the second round was refused after a round
\* that raised, and verification ended with two attempts unused
C36_Witness ==
    /\ Len(pollLog) = 2
    /\ RoundRaised(pollLog[1])
    /\ RoundRefused(pollLog[2])
    /\ attempt = 1
    /\ npc = "done"

\* C36 witness: four rounds raised and verification ended with the timeout
C36_WitnessRaised ==
    /\ Len(pollLog) = 4
    /\ \A k \in 1..4 : RoundRaised(pollLog[k])
    /\ verifyExit = "timeout"

(***************************************************************************)
(* The uplink step of meraki_networkback23JULY.py (checked under           *)
(* SpecBack23)                                                             *)
(***************************************************************************)

\* the uplink call was made and did not succeed
UplinkFailed ==
    \E i \in CallsOf("uplink_settings") : apiCalls[i].status # 200

\* C37: a failed uplink configuration is tolerated: when the config carries
\* wan_config and the uplink call fails, deploy completes and returns its
\* result, and the deployment is not reported as failed.
C37_UplinkFailureTolerated ==
    /\ program = "network_back23"
    /\ cpc = "exit"
    /\ "wan_config" \in config.keys
    /\ UplinkFailed
    => /\ ~deploy_return.none
       /\ exit_code = 0

(***************************************************************************)
(* The device move of the service handlers (checked under SpecHandler)     *)
(***************************************************************************)

\* the calls of the handler with operation op
HandlerCallsOf(op) == {i \in 1..Len(hCalls) : hCalls[i].op = op}

\* mover.move_device returned True: the claim was answered 200 or 201
DeviceMoved == \E i \in HandlerCallsOf("move_device") : hCalls[i].status

\* C38: in lambda_function.py, when the request asks for a device move the
\* response is 200 only if the device was moved; every way the move does not
\* happen, source device or target network not found included, is answered 500.
C38_MoveRequestedAnswered200OnlyIfMoved ==
    /\ handler = "lambda_function"
    /\ "move_device" \in event
    /\ hpc = "done"
    /\ response = 200
    => DeviceMoved

\* the move block of lambda_handler.py was entered: the mover was made or a
\* call of it is logged
MoveAttempted ==
    \/ hpc \in {"mover_source", "mover_target", "mover_move"}
    \/ HandlerCallsOf("get_inventory_devices") # {}

\* C39: in lambda_handler.py the device move is attempted only after the
\* deployment returned a result and only when source_device and target_network
\* are both configured; no outcome of the move changes the 200 response, and
\* the result carries a device_move entry only when the move succeeded.
C39_MoveNeverChangesResponse ==
    handler = "lambda_handler" =>
       /\ MoveAttempted =>
             /\ DeploymentSucceeded
             /\ "network" \in deployment_result
             /\ {"source_device", "target_network"} \subseteq EffectiveConfig
       /\ hpc = "done" /\ DeploymentSucceeded /\ "network" \in deployment_result
             => response = 200
       /\ "device_move" \in deployment_result <=> DeviceMoved

\* C39 witness: the claim of the move failed and the answer is 200 without a
\* device_move entry
C39_Witness ==
    /\ handler = "lambda_handler"
    /\ hpc = "done"
    /\ \E i \in HandlerCallsOf("move_device") : ~hCalls[i].status
    /\ response = 200
    /\ deployment_result = {"network"}

\* C39 witness: the mover raised and the answer is 200
C39_WitnessRaised ==
    /\ handler = "lambda_handler"
    /\ hpc = "done"
    /\ "source_device" \in event
    /\ "target_network" \in EffectiveConfig
    /\ HandlerCallsOf("get_inventory_devices") = {}
    /\ deployment_result = {"network"}
    /\ response = 200


\* ---- C40 ----
ScriptsRun == orchestration.scripts

ExitedZero(run) ==
    run.outcome.kind = "completed" /\ run.outcome.returncode = 0

OrchExited == orchestration.pc = "exit"

\* C40: in deploy_and_move the device-move script is run only after the
\* network script has exited with code 0, and never once the network script
\* has failed or timed out; the process exits with 0 exactly when both
\* scripts exited 0, and with 1 otherwise.
C40_MoveOnlyAfterNetworkExitedZero ==
    /\ \A i \in 1..Len(ScriptsRun) :
          ScriptsRun[i].script = "device_move.py"
             => /\ i = 2
                /\ ScriptsRun[1].script = "meraki_network.py"
                /\ ExitedZero(ScriptsRun[1])
    /\ (Len(ScriptsRun) >= 1 /\ ~ExitedZero(ScriptsRun[1]))
          => /\ Len(ScriptsRun) = 1
             /\ OrchExited
             /\ orchestration.exit_code = 1
    /\ OrchExited
          => /\ orchestration.exit_code \in {0, 1}
             /\ orchestration.exit_code = 0
                   <=> /\ Len(ScriptsRun) = 2
                       /\ ExitedZero(ScriptsRun[1])
                       /\ ExitedZero(ScriptsRun[2])

\* both scripts ran and exited 0: the process exits 0
C40_Witness ==
    /\ OrchExited
    /\ Len(ScriptsRun) = 2
    /\ ScriptsRun[2].script = "device_move.py"
    /\ ExitedZero(ScriptsRun[2])
    /\ orchestration.exit_code = 0

\* the network script ran into the timeout: nothing else is run, exit 1
C40_WitnessTimeout ==
    /\ OrchExited
    /\ Len(ScriptsRun) = 1
    /\ ScriptsRun[1].outcome.kind = "TimeoutExpired"
    /\ orchestration.exit_code = 1

====
